---- MODULE Spec2Model ----
(***************************************************************************)
(* Model of the ScoutQuest service registry (scoutquest-server).           *)
(*                                                                         *)
(* The registry keeps two concurrent maps (DashMap): `instances`, keyed by *)
(* instance id, and `services`, keyed by service name, where every service *)
(* holds CLONES of its instances.  Handlers run on the multi-threaded      *)
(* tokio runtime (#[tokio::main]); a handler is atomic only for as long as *)
(* it holds one DashMap guard, so every handler is modelled as the         *)
(* sequence of its DashMap operations, one action per operation, and the   *)
(* program counter pc[p] keeps a handler on its path.                      *)
(*                                                                         *)
(* Spec runs NumProcs handlers concurrently; SeqSpec runs one handler at a *)
(* time, with more inputs and a running clock.                             *)
(* LbSpec adds load_balance_service to a registry whose catalog one       *)
(* handler at a time changes.  SelectSpec, CallSpec, AgentSpec and         *)
(* AgentSeqSpec model the client library (scoutquest-rust): the            *)
(* LoadBalancer, the retry loop of call_service, and the agent's           *)
(* register_service / deregister / heartbeat task, called by NumProcs      *)
(* clones concurrently (AgentSpec) or by one caller (AgentSeqSpec).        *)
(* ReaperSpec runs the sweep of cleanup_stale_instances on one task while  *)
(* register and heartbeat handlers run on another, with a clock that       *)
(* passes the stale threshold.  DiscoverSpec runs registrations and        *)
(* discovery requests to the registry one at a time; ClientDiscoverSpec    *)
(* runs registrations, status updates and the client's discover_service.   *)
(* StatusSpec runs heartbeats and status updates beside the health checker *)
(* with a running clock; ResolveSpec runs call_service (discovery, pick,   *)
(* request, retry) beside registrations; HeartbeatSpec is the agent with   *)
(* one caller, its heartbeat task under weak fairness, and removals of its *)
(* instance by others; MetricsSpec runs get_stats beside one mutating      *)
(* handler; TagSpec runs one caller with tagged registrations and          *)
(* get_services_by_tag.                                                    *)
(*                                                                         *)
(* A heartbeat task is polled from its tick to its next pending await in   *)
(* one go, and JoinHandle::abort takes effect only when the task is not    *)
(* being polled: `woken` holds the tasks that are being polled, `wire` the *)
(* heartbeat requests under way.                                           *)
(*                                                                         *)
(* Fields that no operation reads and no property mentions (metadata,      *)
(* secure, Service.created_at / updated_at, the event timestamp) are left  *)
(* out of the records.                                                     *)
(***************************************************************************)
EXTENDS Integers, Sequences, FiniteSets, TLC

\* ------------------------------------------------------------------ bounds
NumProcs == 2
MaxIds == 2
MaxEvents == 3
MaxClock == 1
MaxTime == 6

Procs == 1..NumProcs

\* ------------------------------------------------------- program constants
Statuses == {"Up", "Down", "Starting", "Stopping", "OutOfService", "Unknown"}

ServiceNames == {"test-service", "api-1"}

\* RegisterServiceRequest: an instance of test-service that declares a health
\* check, and an instance of api-1 that declares none
Requests ==
    {[service_name |-> "test-service", host |-> "localhost", port |-> 3000,
      tags |-> <<>>, health_check |-> TRUE],
     [service_name |-> "api-1", host |-> "localhost", port |-> 8080,
      tags |-> <<>>, health_check |-> FALSE]}

\* An id string that was never handed out by a registration.
UnknownId == 0

\* chrono::Duration::minutes(5), in the minutes the clock counts
StaleThreshold == 5

\* The inputs of the concurrent handlers
ConcurrentNames == {"test-service"}
ConcurrentRequests == {r \in Requests : r.service_name \in ConcurrentNames}
ConcurrentStatuses == {"Down"}

VARIABLES
    instances,   \* ServiceRegistry.instances : id -> ServiceInstance
    services,    \* ServiceRegistry.services  : name -> Service
    events,      \* everything sent on event_sender, in send order
    nextId,      \* the next id Uuid::new_v4() hands out
    now,         \* Utc::now()
    pc,          \* position of each handler
    loc,         \* local variables of each handler
    response,    \* what the handler that returned in the last step returned
    round_robin_counters,  \* ServiceRegistry.round_robin_counters : name -> usize
    picks,       \* the RoundRobin picks of the registry, in fetch_add order
    candidates,  \* the instance list a client holds for each service
    round_robin_counter,   \* LoadBalancer.round_robin_counter of the client
    selected,    \* the last call of LoadBalancer::select_instance and its result
    selections,  \* the RoundRobin selections of the client, in call order
    retry_attempts,        \* ServiceDiscoveryClient.retry_attempts
    retry_delay,           \* ServiceDiscoveryClient.retry_delay
    call,        \* the call_service in progress, or the last one made
    registered_instance,   \* ServiceDiscoveryClient.registered_instance
    heartbeat_handle,      \* ServiceDiscoveryClient.heartbeat_handle
    tasks,       \* the heartbeat tasks that were spawned and neither aborted nor ended
    nextTask,    \* the next task tokio::spawn creates
    agent,       \* position and locals of each caller of the client agent
    returned,    \* what the call on the agent that returned in the last step returned
    discovered,  \* the last discovery request and the instances it returned
    woken,       \* the heartbeat tasks whose tick fired and that are being polled
    wire,        \* the heartbeat requests sent and not yet answered
    beat         \* the outcome of the last heartbeat request

\* The state of load_balance_service in the registry
balancing == <<round_robin_counters, picks>>

\* The state of the client library (scoutquest-rust)
selecting == <<candidates, round_robin_counter, selected, selections>>
calling == <<retry_attempts, retry_delay, call>>
beating == <<woken, wire, beat>>
registering == <<registered_instance, heartbeat_handle, tasks, nextTask, agent, returned,
                 beating>>
discovering == <<discovered>>
client == <<selecting, calling, registering, discovering>>

registry == <<instances, services, events, nextId, now, pc, loc, response>>

vars == <<registry, balancing, client>>

\* ----------------------------------------------------------------- helpers
Range(s) == {s[k] : k \in 1..Len(s)}

\* Retain with the predicate inverted (|i| i.id == id)
RetainInverted(s, id) == SelectSeq(s, LAMBDA i : i.id = id)

RECURSIVE Retain(_, _)
\* Vec::retain(|i| i.id != id): keeps the order of the survivors
Retain(s, id) ==
    IF s = <<>> THEN <<>>
    ELSE IF Head(s).id # id THEN <<Head(s)>> \o Retain(Tail(s), id)
         ELSE Retain(Tail(s), id)

RECURSIVE RetainUp(_)
\* Vec::retain(|i| matches!(i.status, InstanceStatus::Up))
RetainUp(s) ==
    IF s = <<>> THEN <<>>
    ELSE IF Head(s).status = "Up" THEN <<Head(s)>> \o RetainUp(Tail(s))
         ELSE RetainUp(Tail(s))

\* DashMap::insert
MapInsert(m, k, v) == [x \in DOMAIN m \cup {k} |-> IF x = k THEN v ELSE m[x]]

\* A lookup where the removal should be (DashMap::get for DashMap::remove)
MapRemoveKeeps(m, k) == m

\* DashMap::remove
MapRemove(m, k) == [x \in DOMAIN m \ {k} |-> m[x]]

\* The instance register_instance builds from the request.
NewInstance(req, id, t) ==
    [id |-> id, service_name |-> req.service_name, host |-> req.host,
     port |-> req.port, status |-> "Up", tags |-> req.tags,
     health_check |-> req.health_check, registered_at |-> t,
     last_heartbeat |-> t, last_status_change |-> t]

\* services.entry(name).and_modify(push).or_insert_with(new Service)
\* An and_modify that also adds the tags of the instance to those of the service
ServicesEntryMergesTags(svcs, inst) ==
    IF inst.service_name \in DOMAIN svcs
    THEN [svcs EXCEPT ![inst.service_name].instances = Append(@, inst),
                      ![inst.service_name].tags =
                          @ \o SelectSeq(inst.tags, LAMBDA t : t \notin Range(@))]
    ELSE MapInsert(svcs, inst.service_name,
                   [name |-> inst.service_name, instances |-> <<inst>>,
                    tags |-> inst.tags])

ServicesEntry(svcs, inst) ==
    IF inst.service_name \in DOMAIN svcs
    THEN [svcs EXCEPT ![inst.service_name].instances = Append(@, inst)]
    ELSE MapInsert(svcs, inst.service_name,
                   [name |-> inst.service_name, instances |-> <<inst>>,
                    tags |-> inst.tags])

\* if let Some(mut service) = services.get_mut(name) { service.instances.retain(..) }
ServicesRetain(svcs, name, id) ==
    IF name \in DOMAIN svcs
    THEN [svcs EXCEPT ![name].instances = Retain(@, id)]
    ELSE svcs

\* service.instances.is_empty(), inside the Some branch of get_mut
Emptied(svcs, name) ==
    name \in DOMAIN svcs /\ svcs[name].instances = <<>>

\* A heartbeat that recovers the status and forgets last_status_change
HeartbeatUpdateKeepsChangeTime(inst, t) ==
    [inst EXCEPT !.last_heartbeat = t, !.status = "Up"]

\* A heartbeat that stamps last_status_change whatever the status was
HeartbeatUpdateStampsChange(inst, t) ==
    [inst EXCEPT !.last_heartbeat = t, !.status = "Up", !.last_status_change = t]

\* The instance a heartbeat at time t leaves in the index
HeartbeatUpdate(inst, t) ==
    IF inst.status # "Up"
    THEN [inst EXCEPT !.last_heartbeat = t, !.status = "Up", !.last_status_change = t]
    ELSE [inst EXCEPT !.last_heartbeat = t]

RegisteredEvent(existed, inst) ==
    [event_type |-> IF existed THEN "InstanceRegistered" ELSE "ServiceRegistered",
     service_name |-> inst.service_name, instance_id |-> inst.id,
     previous_status |-> "", new_status |-> ""]

DeregisteredEvent(removed, inst) ==
    [event_type |-> IF removed THEN "ServiceDeregistered" ELSE "InstanceDeregistered",
     service_name |-> inst.service_name, instance_id |-> inst.id,
     previous_status |-> "", new_status |-> ""]

StatusEvent(type, inst, prev, new) ==
    [event_type |-> type, service_name |-> inst.service_name,
     instance_id |-> inst.id, previous_status |-> prev, new_status |-> new]

\* get_service_instances with no tag filter and no limit
GetServiceInstances(svcs, name, healthy_only) ==
    LET all == IF name \in DOMAIN svcs THEN svcs[name].instances ELSE <<>>
    IN  IF healthy_only THEN RetainUp(all) ELSE all

\* ------------------------------------------------------------------- state
NoRequest == [service_name |-> "", host |-> "", port |-> 0, tags |-> <<>>,
              health_check |-> FALSE]

\* The locals of a handler: the operation it runs, the request and the
\* instance id it was called with, the instance it built or removed, its
\* boolean (service_existed / service_removed), and what its loop has left.
\* For load_balance_service: the strategy and the instances it found.  For
\* cleanup_stale_instances: the `now` it reads before it enumerates.
\* For get_stats: the counts it has read so far.  `guards` are the indices on
\* which the handler holds a DashMap guard between two of its operations.
NoStats == [total_services |-> 0, total_instances |-> 0, healthy_instances |-> 0]

Idle == [op |-> "none", req |-> NoRequest, id |-> UnknownId,
         inst |-> NewInstance(NoRequest, UnknownId, 0),
         flag |-> FALSE, pending |-> {}, strategy |-> "", found |-> <<>>,
         now |-> 0, stats |-> NoStats, guards |-> {}]

\* A handler's return value: the operation, the id it was about, the boolean
\* it returned (Ok for register_instance) and the instance it returned; for
\* get_stats, the RegistryStats it returned; for get_services_by_tag, the tag
\* it was asked for and the services it returned.
Result(op, id, ok, inst) ==
    [op |-> op, id |-> id, ok |-> ok, inst |-> inst, stats |-> NoStats,
     tag |-> "", services |-> {}]

NoResponse == Result("none", UnknownId, FALSE, Idle.inst)

\* ServiceRegistry::new (registry.rs lines 18-29)
RegistryStart ==
    /\ instances = <<>>
    /\ services = <<>>
    /\ events = <<>>
    /\ nextId = 1
    /\ now = 0
    /\ pc = [p \in Procs |-> "idle"]
    /\ loc = [p \in Procs |-> Idle]
    /\ response = NoResponse
    /\ round_robin_counters = <<>>
    /\ picks = <<>>

\* Option::None of registered_instance and of heartbeat_handle
None == 0

\* An instance as the client holds it (scoutquest-rust models.rs)
NoCandidate == [id |-> "", service_name |-> "", status |-> ""]

\* The result of select_instance: Ok(instance) or Err(error)
Outcome(kind, instance, service_name) ==
    [kind |-> kind, instance |-> instance, service_name |-> service_name]

NoSelection == [instances |-> <<>>, strategy |-> "",
                outcome |-> Outcome("none", NoCandidate, "")]

\* LoadBalancer::new (load_balancer.rs lines 40-44), with no list fetched yet
SelectingStart ==
    /\ candidates = [n \in ServiceNames |-> <<>>]
    /\ round_robin_counter = 0
    /\ selected = NoSelection
    /\ selections = <<>>

\* call_service: the attempt it is at, the results of the attempts it made,
\* the sleeps it took and what it returned
NoResult == [kind |-> "none", attempt |-> 0]

NoCall == [pc |-> "idle", attempt |-> 0, tries |-> <<>>, sleeps |-> <<>>,
           result |-> NoResult]

\* ServiceDiscoveryClient::new (client.rs lines 67-74): 3 attempts, 1 second
CallingStart ==
    /\ retry_attempts = 3
    /\ retry_delay = 1
    /\ call = NoCall

\* An HTTP response as a caller of the agent sees it; status 0 stands for a
\* request that failed with a network error
Reply(kind, status, body) == [kind |-> kind, status |-> status, body |-> body]

NoReply == Reply("none", 0, "")

\* What register_service or deregister returned: Ok, or the error
Returned(kind, status, message) == [kind |-> kind, status |-> status, message |-> message]

NoReturn == Returned("none", 0, "")

\* A caller of the agent: where it is in register_service or deregister, the
\* instance id and the task handle it holds, and the response it received
AgentIdle == [pc |-> "idle", id |-> None, task |-> None, reply |-> NoReply]

\* ServiceDiscoveryClient::with_config (client.rs lines 103-111)
\* No heartbeat request was made yet
NoBeat == [task |-> 0, id |-> 0, kind |-> "none", status |-> 0]

RegisteringStart ==
    /\ woken = {}
    /\ wire = {}
    /\ beat = NoBeat
    /\ registered_instance = None
    /\ heartbeat_handle = None
    /\ tasks = {}
    /\ nextTask = 1
    /\ agent = [c \in Procs |-> AgentIdle]
    /\ returned = NoReturn

\* An Option: None is the empty sequence, Some(v) the sequence of v alone
Nothing == <<>>

Some(v) == <<v>>

UnwrapOr(o, default) == IF o = Nothing THEN default ELSE o[1]

\* No discovery request was made yet
NoDiscovery == [by |-> "none", service_name |-> "", options |-> Nothing,
                query |-> [healthy_only |-> Nothing, tags |-> Nothing, limit |-> Nothing],
                instances |-> <<>>]

DiscoveringStart == discovered = NoDiscovery

Init ==
    /\ RegistryStart
    /\ SelectingStart
    /\ CallingStart
    /\ RegisteringStart
    /\ DiscoveringStart

\* The handler of process p returns `result` to its caller.
Finish(p, result) ==
    /\ pc' = [pc EXCEPT ![p] = "idle"]
    /\ loc' = [loc EXCEPT ![p] = Idle]
    /\ response' = result

\* The handler of process p moves on to `label` with locals `l`.
Goto(p, label, l) ==
    /\ pc' = [pc EXCEPT ![p] = label]
    /\ loc' = [loc EXCEPT ![p] = l]
    /\ response' = NoResponse

MayStart(p) == pc[p] = "idle" /\ Len(events) < MaxEvents

\* A DashMap operation locks the shard of its key and waits while any guard on
\* it is held, the caller's own included (the locks are not reentrant).
Unlocked(index) == \A q \in Procs : index \notin loc[q].guards

\* registry.rs lines 101-110 without the drop of line 106: the guard of
\* get_mut is still held when services.remove is called
GuardAfterGetMutWithoutDrop(emptied) == IF emptied THEN {"services"} ELSE {}

\* registry.rs lines 105-110: drop(service) before services.remove, and the
\* end of the scope of `service` otherwise
GuardAfterGetMut(emptied) == {}

\* ------------------------------------------------------- register_instance
\* lines 35-53: build the instance, instances.insert
RegisterInsert(p, req) ==
    /\ MayStart(p)
    /\ Unlocked("instances")
    /\ nextId <= MaxIds
    /\ LET inst == NewInstance(req, nextId, now)
       IN  /\ instances' = MapInsert(instances, inst.id, inst)
           /\ Goto(p, "reg_contains",
                   [Idle EXCEPT !.op = "register", !.req = req, !.id = inst.id,
                                !.inst = inst])
    /\ nextId' = nextId + 1
    /\ UNCHANGED <<services, events, now, balancing, client>>

\* line 55: service_existed = services.contains_key
RegisterContains(p) ==
    /\ pc[p] = "reg_contains"
    /\ Unlocked("services")
    /\ Goto(p, "reg_entry",
            [loc[p] EXCEPT !.flag = (loc[p].inst.service_name \in DOMAIN services)])
    /\ UNCHANGED <<instances, services, events, nextId, now, balancing, client>>

\* lines 57-69: services.entry(..).and_modify(..).or_insert_with(..)
RegisterEntry(p) ==
    /\ pc[p] = "reg_entry"
    /\ Unlocked("services")
    /\ services' = ServicesEntry(services, loc[p].inst)
    /\ Goto(p, "reg_send", loc[p])
    /\ UNCHANGED <<instances, events, nextId, now, balancing, client>>

\* lines 71-94: send the event, return Ok(instance)
RegisterSend(p) ==
    /\ pc[p] = "reg_send"
    /\ events' = Append(events, RegisteredEvent(loc[p].flag, loc[p].inst))
    /\ Finish(p, Result("register", loc[p].id, TRUE, loc[p].inst))
    /\ UNCHANGED <<instances, services, nextId, now, balancing, client>>

\* ----------------------------------------------------- deregister_instance
\* A deregistration runs for the DELETE handler (op "deregister") and for
\* every id of delete_service's loop (op "delete_service") and of the
\* reaper's loop (op "cleanup_stale_instances"); Return hands its boolean
\* back to the caller.
Return(p, l, result) ==
    IF l.op \in {"delete_service", "cleanup_stale_instances"}
    THEN /\ pc' = [pc EXCEPT ![p] = IF l.op = "delete_service"
                                    THEN "del_loop" ELSE "reap_loop"]
         /\ loc' = [loc EXCEPT ![p] = l]
         /\ response' = result
    ELSE Finish(p, result)

\* line 98: instances.remove(instance_id); line 132: false when absent
InstancesRemove(p, id, l) ==
    IF id \in DOMAIN instances
    THEN /\ instances' = MapRemove(instances, id)
         /\ Goto(p, "dereg_get_mut",
                 [l EXCEPT !.id = id, !.inst = instances[id], !.flag = FALSE])
    ELSE /\ instances' = instances
         /\ Return(p, l, Result("deregister", id, FALSE, Idle.inst))

DeregisterRemove(p, id) ==
    /\ MayStart(p)
    /\ Unlocked("instances")
    /\ InstancesRemove(p, id, [Idle EXCEPT !.op = "deregister"])
    /\ UNCHANGED <<services, events, nextId, now, balancing, client>>

\* lines 101-110: services.get_mut, retain, is_empty, drop(service)
DeregisterGetMut(p) ==
    /\ pc[p] = "dereg_get_mut"
    /\ Unlocked("services")
    /\ services' = ServicesRetain(services, loc[p].inst.service_name, loc[p].id)
    /\ LET emptied == Emptied(services', loc[p].inst.service_name)
       IN  Goto(p, IF emptied THEN "dereg_remove" ELSE "dereg_send",
                [loc[p] EXCEPT !.guards = GuardAfterGetMut(emptied)])
    /\ UNCHANGED <<instances, events, nextId, now, balancing, client>>

\* lines 107-108: services.remove(name); service_removed = true
DeregisterServicesRemove(p) ==
    /\ pc[p] = "dereg_remove"
    /\ Unlocked("services")
    /\ services' = MapRemove(services, loc[p].inst.service_name)
    /\ Goto(p, "dereg_send", [loc[p] EXCEPT !.flag = TRUE])
    /\ UNCHANGED <<instances, events, nextId, now, balancing, client>>

\* lines 112-130: send the event, return true
DeregisterSend(p) ==
    /\ pc[p] = "dereg_send"
    /\ events' = Append(events, DeregisteredEvent(loc[p].flag, loc[p].inst))
    /\ Return(p, [loc[p] EXCEPT !.id = UnknownId, !.inst = Idle.inst, !.flag = FALSE],
              Result("deregister", loc[p].id, TRUE, Idle.inst))
    /\ UNCHANGED <<instances, services, nextId, now, balancing, client>>

\* A heartbeat that inserts the instance it does not find
HeartbeatUpsert(id) ==
    /\ instances' = IF id \in DOMAIN instances
                    THEN [instances EXCEPT ![id] = HeartbeatUpdate(@, now)]
                    ELSE MapInsert(instances, id, NewInstance(NoRequest, id, now))
    /\ events' = IF id \in DOMAIN instances /\ instances[id].status # "Up"
                 THEN Append(events,
                        StatusEvent("HealthCheckRecovered", instances[id],
                                    instances[id].status, "Up"))
                 ELSE events

\* -------------------------------------------------------- update_heartbeat
\* The whole body runs under the guard of instances.get_mut.
Heartbeat(id) ==
    IF id \in DOMAIN instances
    THEN LET previous_status == instances[id].status
         IN  /\ instances' = [instances EXCEPT ![id] = HeartbeatUpdate(@, now)]
             /\ events' = IF previous_status # "Up"
                          THEN Append(events,
                                 StatusEvent("HealthCheckRecovered", instances[id],
                                             previous_status, "Up"))
                          ELSE events
    ELSE UNCHANGED <<instances, events>>

UpdateHeartbeat(p, id) ==
    /\ MayStart(p)
    /\ Unlocked("instances")
    /\ Heartbeat(id)
    /\ Finish(p, Result("heartbeat", id, id \in DOMAIN instances, Idle.inst))
    /\ UNCHANGED <<services, nextId, now, balancing, client>>

\* A status update that publishes nothing when the status stays the same
SetStatusQuietWhenSame(id, status) ==
    IF id \in DOMAIN instances
    THEN /\ instances' = [instances EXCEPT ![id].status = status,
                                           ![id].last_status_change = now]
         /\ events' = IF instances[id].status = status THEN events
                      ELSE Append(events,
                             StatusEvent("InstanceStatusChanged", instances[id],
                                         instances[id].status, status))
    ELSE UNCHANGED <<instances, events>>

\* A status update that leaves last_status_change as it was
SetStatusKeepsChangeTime(id, status) ==
    IF id \in DOMAIN instances
    THEN /\ instances' = [instances EXCEPT ![id].status = status]
         /\ events' = Append(events,
               StatusEvent("InstanceStatusChanged", instances[id],
                           instances[id].status, status))
    ELSE UNCHANGED <<instances, events>>

\* -------------------------------------------------- update_instance_status
\* The whole body runs under the guard of instances.get_mut.
SetStatus(id, status) ==
    IF id \in DOMAIN instances
    THEN /\ instances' = [instances EXCEPT ![id].status = status,
                                           ![id].last_status_change = now]
         /\ events' = Append(events,
               StatusEvent("InstanceStatusChanged", instances[id],
                           instances[id].status, status))
    ELSE UNCHANGED <<instances, events>>

UpdateInstanceStatus(p, id, status) ==
    /\ MayStart(p)
    /\ Unlocked("instances")
    /\ SetStatus(id, status)
    /\ Finish(p, Result("update_status", id, id \in DOMAIN instances, Idle.inst))
    /\ UNCHANGED <<services, nextId, now, balancing, client>>

\* ---------------------------------------------------------- delete_service
\* api.rs lines 41-44: the ids of the instances of the named service
DeleteServiceCollect(p, name) ==
    /\ MayStart(p)
    /\ Goto(p, "del_loop",
            [Idle EXCEPT !.op = "delete_service",
                         !.pending = {i \in DOMAIN instances :
                                        instances[i].service_name = name}])
    /\ UNCHANGED <<instances, services, events, nextId, now, balancing, client>>

\* api.rs lines 46-50: deregister_instance for the next id of the loop;
\* NO_CONTENT after the last one
DeleteServiceNext(p) ==
    /\ pc[p] = "del_loop"
    /\ IF loc[p].pending = {}
       THEN /\ Finish(p, Result("delete_service", UnknownId, TRUE, Idle.inst))
            /\ instances' = instances
       ELSE \E id \in loc[p].pending :
               InstancesRemove(p, id, [loc[p] EXCEPT !.pending = @ \ {id}])
    /\ UNCHANGED <<services, events, nextId, now, balancing, client>>

\* ----------------------------------------------------- check_all_instances
\* health_checker.rs line 62: snapshot of the instances; the loop skips the
\* ones without a health check (line 65)
CheckAllCollect(p) ==
    /\ MayStart(p)
    /\ Goto(p, "hc_loop",
            [Idle EXCEPT !.op = "check_all_instances",
                         !.pending = {instances[i] : i \in
                                        {j \in DOMAIN instances :
                                           instances[j].health_check}}])
    /\ UNCHANGED <<instances, services, events, nextId, now, balancing, client>>

\* health_checker.rs lines 64-77: probe the next instance of the snapshot and
\* apply the result, judged against the status in the snapshot
CheckAllProbe(p, is_healthy) ==
    /\ pc[p] = "hc_loop"
    /\ IF loc[p].pending = {}
       THEN /\ Finish(p, Result("check_all_instances", UnknownId, TRUE, Idle.inst))
            /\ UNCHANGED <<instances, events>>
       ELSE \E inst \in loc[p].pending :
               LET new_status == IF is_healthy THEN "Up" ELSE "Down"
               IN  /\ pc' = pc
                   /\ loc' = [loc EXCEPT ![p].pending = @ \ {inst}]
                   /\ IF ~ (inst.status = new_status /\ new_status \in {"Up", "Down"})
                      THEN /\ SetStatus(inst.id, new_status)
                           /\ response' = Result("update_status", inst.id,
                                                 inst.id \in DOMAIN instances, Idle.inst)
                      ELSE /\ UNCHANGED <<instances, events>>
                           /\ response' = NoResponse
    /\ UNCHANGED <<services, nextId, now, balancing, client>>

\* --------------------------------------------------------------- the clock
Tick ==
    /\ now < MaxClock
    /\ now' = now + 1
    /\ response' = NoResponse
    /\ UNCHANGED <<instances, services, events, nextId, pc, loc, balancing, client>>

\* Ids a caller can name: one that was never handed out, or one that a
\* response or a listing has shown, which is at the earliest when its
\* registration has put it into the service list (delete_service and
\* check_all_instances find the others by enumerating the index).
CallerIds ==
    {UnknownId} \cup
    {i \in 1..(nextId - 1) :
        ~ \E p \in Procs : pc[p] \in {"reg_contains", "reg_entry"} /\ loc[p].id = i}

\* Handlers running concurrently on the worker threads.  The requests are
\* for one service and the administrative status is Down, so that the
\* interleavings of NumProcs handlers can be explored exhaustively.
Next ==
    \/ \E p \in Procs, req \in ConcurrentRequests : RegisterInsert(p, req)
    \/ \E p \in Procs : RegisterContains(p)
    \/ \E p \in Procs : RegisterEntry(p)
    \/ \E p \in Procs : RegisterSend(p)
    \/ \E p \in Procs, id \in CallerIds : DeregisterRemove(p, id)
    \/ \E p \in Procs : DeregisterGetMut(p)
    \/ \E p \in Procs : DeregisterServicesRemove(p)
    \/ \E p \in Procs : DeregisterSend(p)
    \/ \E p \in Procs, id \in CallerIds : UpdateHeartbeat(p, id)
    \/ \E p \in Procs, id \in CallerIds, st \in ConcurrentStatuses :
          UpdateInstanceStatus(p, id, st)
    \/ \E p \in Procs, name \in ConcurrentNames : DeleteServiceCollect(p, name)
    \/ \E p \in Procs : DeleteServiceNext(p)
    \/ \E p \in Procs : CheckAllCollect(p)
    \/ \E p \in Procs, h \in BOOLEAN : CheckAllProbe(p, h)

Spec == Init /\ [][Next]_vars

\* One handler at a time (every call returns before the next one starts),
\* with every request, every status and a running clock.
SeqNext ==
    \/ \E req \in Requests : RegisterInsert(1, req)
    \/ RegisterContains(1)
    \/ RegisterEntry(1)
    \/ RegisterSend(1)
    \/ \E id \in CallerIds : DeregisterRemove(1, id)
    \/ DeregisterGetMut(1)
    \/ DeregisterServicesRemove(1)
    \/ DeregisterSend(1)
    \/ \E id \in CallerIds : UpdateHeartbeat(1, id)
    \/ \E id \in CallerIds, st \in Statuses : UpdateInstanceStatus(1, id, st)
    \/ \E name \in ServiceNames : DeleteServiceCollect(1, name)
    \/ DeleteServiceNext(1)
    \/ CheckAllCollect(1)
    \/ \E h \in BOOLEAN : CheckAllProbe(1, h)
    \/ Tick

SeqSpec == Init /\ [][SeqNext]_vars

\* ------------------------------------------------------------ observations
Quiescent == \A p \in Procs : pc[p] = "idle"

\* The ids listed under service n
ListedIds(n) == {services[n].instances[k].id : k \in 1..Len(services[n].instances)}

\* The positions of the event log that are about instance i
EventsOf(i, types) ==
    {k \in 1..Len(events) : events[k].instance_id = i /\ events[k].event_type \in types}

RegisteredTypes == {"ServiceRegistered", "InstanceRegistered"}
DeregisteredTypes == {"ServiceDeregistered", "InstanceDeregistered"}
StatusTypes == {"InstanceStatusChanged", "HealthCheckRecovered", "HealthCheckFailed"}

\* api.rs lines 99-103: the HTTP status of the heartbeat handler
HeartbeatHttpStatus(ok) == IF ok THEN 200 ELSE 404

\* The two indices agree: every id of the instance index is listed under
\* exactly one service, and every listed instance is in the instance index.
IndexMatchesServices ==
    /\ \A i \in DOMAIN instances :
          Cardinality({n \in DOMAIN services : i \in ListedIds(n)}) = 1
    /\ \A n \in DOMAIN services : ListedIds(n) \subseteq DOMAIN instances

\* C1: whatever the interleaving of the handlers, every instance id of the
\* instance index is listed under exactly one service, and every instance
\* listed under a service is in the instance index.  Stated for the states
\* in which no handler is in progress, which a reader observes a fortiori.
C1_IndexMatchesServices == Quiescent => IndexMatchesServices

\* C2: in every state, no service record has an empty instance list.
C2_NoEmptyService ==
    \A n \in DOMAIN services : services[n].instances # <<>>

\* C3: after any sequence of operations, discovery with healthy_only = true
\* returns only instances whose current status (the one in the instance
\* index) is Up, and with healthy_only = false it returns all the instances
\* of the service.
C3_HealthyOnlyIsCurrent ==
    Quiescent =>
      \A n \in ServiceNames :
        /\ \A inst \in Range(GetServiceInstances(services, n, TRUE)) :
              /\ inst.id \in DOMAIN instances
              /\ instances[inst.id].status = "Up"
        /\ {inst.id : inst \in Range(GetServiceInstances(services, n, FALSE))}
              = {i \in DOMAIN instances : instances[i].service_name = n}

Registering(i) ==
    \E p \in Procs : pc[p] \in {"reg_contains", "reg_entry", "reg_send"} /\ loc[p].id = i

\* An instance whose registration returned, that is still in the index and
\* whose status was never changed, is in the list discovery returns for its
\* service, which has exactly that one element when no handler is in
\* progress and the index holds no other instance of the service.
Discoverable ==
    \A i \in DOMAIN instances :
       (~ Registering(i) /\ EventsOf(i, StatusTypes) = {}) =>
          LET found == GetServiceInstances(services, instances[i].service_name, TRUE)
          IN  /\ i \in {inst.id : inst \in Range(found)}
              /\ (Quiescent /\ {j \in DOMAIN instances :
                     instances[j].service_name = instances[i].service_name} = {i})
                  => Len(found) = 1

\* C4: register_instance returns an instance with status Up and the
\* request's service_name, host and port; and as long as that instance is
\* neither deregistered nor changed in status, discovery for its service
\* returns a list containing its id (exactly that one element when it is the
\* service's only instance).
C4_RegisterThenDiscover ==
    [][/\ \A p \in Procs :
            (pc[p] = "reg_send" /\ response'.op = "register" /\ response'.id = loc[p].id) =>
               /\ response'.ok
               /\ response'.inst.status = "Up"
               /\ response'.inst.service_name = loc[p].req.service_name
               /\ response'.inst.host = loc[p].req.host
               /\ response'.inst.port = loc[p].req.port
       /\ Discoverable']_vars

\* C5: a heartbeat on a known instance whose status is not Up returns true,
\* leaves the instance Up with last_status_change set to the time of the
\* heartbeat, and publishes exactly one HealthCheckRecovered event that
\* carries the previous status.
C5_HeartbeatRecovers ==
    [][(/\ response'.op = "heartbeat"
        /\ response'.id \in DOMAIN instances
        /\ instances[response'.id].status # "Up") =>
          LET id == response'.id
          IN  /\ response'.ok
              /\ id \in DOMAIN instances'
              /\ instances'[id].status = "Up"
              /\ instances'[id].last_status_change = now
              /\ events' = Append(events,
                    [event_type |-> "HealthCheckRecovered",
                     service_name |-> instances[id].service_name,
                     instance_id |-> id,
                     previous_status |-> instances[id].status,
                     new_status |-> "Up"])]_vars

\* A heartbeat has just recovered an instance that was Stopping, later than
\* its last status change.
C5_Witness ==
    /\ response.op = "heartbeat" /\ response.ok
    /\ response.id \in DOMAIN instances
    /\ instances[response.id].status = "Up"
    /\ instances[response.id].last_status_change > instances[response.id].registered_at
    /\ events # <<>>
    /\ events[Len(events)].event_type = "HealthCheckRecovered"
    /\ events[Len(events)].previous_status = "Stopping"

\* C6: a heartbeat for an id that is not in the instance index returns false
\* (HTTP 404), changes neither index and publishes no event.
C6_HeartbeatUnknown ==
    [][(response'.op = "heartbeat" /\ response'.id \notin DOMAIN instances) =>
          /\ ~ response'.ok
          /\ HeartbeatHttpStatus(response'.ok) = 404
          /\ UNCHANGED <<instances, services, events>>]_vars

\* A heartbeat for an instance that was registered and deregistered before
\* has just returned false.
C6_Witness ==
    /\ response.op = "heartbeat" /\ ~ response.ok
    /\ EventsOf(response.id, RegisteredTypes) # {}
    /\ EventsOf(response.id, DeregisteredTypes) # {}
    /\ response.id \notin DOMAIN instances

\* C7: a deregistration returns false only for an id that is not in the
\* index, and then changes nothing and publishes nothing; it returns true at
\* most once per id (never after a deregistration of the same id has
\* succeeded), and then the id is out of the index.
C7_DeregisterIdempotent ==
    [][response'.op = "deregister" =>
          LET id == response'.id
          IN  /\ response'.ok =>
                   /\ EventsOf(id, DeregisteredTypes) = {}
                   /\ id \notin DOMAIN instances'
              /\ ~ response'.ok =>
                   /\ id \notin DOMAIN instances
                   /\ UNCHANGED <<instances, services, events>>]_vars

\* A second deregistration of an id has just returned false.
C7_Witness ==
    /\ response.op = "deregister" /\ ~ response.ok
    /\ EventsOf(response.id, DeregisteredTypes) # {}

\* register_instance, deregister_instance and update_heartbeat as functions
\* of the catalog [instances, services], each the composition of the
\* handler's steps.
RegisterInstance(cat, req, id, t) ==
    LET inst == NewInstance(req, id, t)
    IN  [instances |-> MapInsert(cat.instances, id, inst),
         services |-> ServicesEntry(cat.services, inst)]

DeregisterInstance(cat, id) ==
    IF id \in DOMAIN cat.instances
    THEN LET name == cat.instances[id].service_name
             retained == ServicesRetain(cat.services, name, id)
         IN  [instances |-> MapRemove(cat.instances, id),
              services |-> IF Emptied(retained, name)
                           THEN MapRemove(retained, name) ELSE retained]
    ELSE cat

RECURSIVE HeartbeatsInstance(_, _, _, _)
HeartbeatsInstance(cat, id, t, n) ==
    IF n = 0 \/ id \notin DOMAIN cat.instances THEN cat
    ELSE HeartbeatsInstance(
            [cat EXCEPT !.instances[id] = HeartbeatUpdate(@, t)], id, t, n - 1)

\* What a reader can tell of an instance and of the catalog, timestamps aside
Untimed(inst) ==
    [id |-> inst.id, service_name |-> inst.service_name, host |-> inst.host,
     port |-> inst.port, status |-> inst.status, tags |-> inst.tags,
     health_check |-> inst.health_check]

Observable(cat) ==
    [instances |-> [i \in DOMAIN cat.instances |-> Untimed(cat.instances[i])],
     services |-> [n \in DOMAIN cat.services |->
                     [name |-> cat.services[n].name, tags |-> cat.services[n].tags,
                      instances |-> [k \in 1..Len(cat.services[n].instances) |->
                                       Untimed(cat.services[n].instances[k])]]]]

MaxHeartbeats == 1

\* C8: from any catalog between two handlers, a registration followed by up
\* to MaxHeartbeats heartbeats on the new id and by its deregistration gives
\* back the same services, the same instances per service in the same order
\* and the same instance index, timestamps aside.
C8_RegisterDeregisterRestores ==
    Quiescent =>
      LET cat == [instances |-> instances, services |-> services]
      IN  \A req \in Requests, t \in now..MaxClock, n \in 0..MaxHeartbeats :
             Observable(DeregisterInstance(
                 HeartbeatsInstance(RegisterInstance(cat, req, nextId, now),
                                    nextId, t, n), nextId))
               = Observable(cat)

\* A registration and the deregistration of its instance have run, and a
\* service with another instance is in the catalog.
C8_Witness ==
    /\ Quiescent
    /\ DOMAIN services # {}
    /\ \E i \in 1..(nextId - 1) :
          /\ EventsOf(i, RegisteredTypes) # {}
          /\ EventsOf(i, DeregisteredTypes) # {}

\* What one step may do to the event log, given what returns in it
C9_Step ==
    LET r == response'
    IN  /\ events' # events =>
            /\ Len(events') = Len(events) + 1
            /\ SubSeq(events', 1, Len(events)) = events
            /\ LET e == events'[Len(events')]
               IN  /\ r.ok
                   /\ r.id = e.instance_id
                   /\ r.op \in {"register", "deregister", "update_status", "heartbeat"}
                   /\ r.op = "register" =>
                         /\ e.event_type \in RegisteredTypes
                         /\ \E p \in Procs : pc[p] = "reg_send" /\ loc[p].id = r.id
                         /\ EventsOf(r.id, RegisteredTypes) = {}
                   /\ r.op = "deregister" =>
                         /\ e.event_type \in DeregisteredTypes
                         /\ r.id \notin DOMAIN instances'
                         /\ EventsOf(r.id, DeregisteredTypes) = {}
                   /\ r.op = "update_status" =>
                         /\ e.event_type = "InstanceStatusChanged"
                         /\ e.previous_status = instances[r.id].status
                         /\ e.new_status = instances'[r.id].status
                   /\ r.op = "heartbeat" =>
                         /\ e.event_type = "HealthCheckRecovered"
                         /\ instances[r.id].status # "Up"
                         /\ instances'[r.id].status = "Up"
        /\ events' = events =>
            /\ r.op \in {"register", "deregister", "update_status"} => ~ r.ok
            /\ (r.op = "heartbeat" /\ r.ok) => instances[r.id].status = "Up"

\* C9: a step publishes at most one event, and it publishes one exactly when
\* a successful mutation returns in it: a registration whose inserts are
\* done, a deregistration whose removal is done, a status update that set the
\* status, a heartbeat that changed the status.  A mutation that fails, a
\* heartbeat on an Up instance and every other step publish nothing, and no
\* id gets a second registration or deregistration event.
C9_EventsExactlyOnce == [][C9_Step]_vars

\* A registration, a status update and a deregistration have each published
\* their event, and a mutation of an unknown id has published none.
C9_Witness ==
    /\ Len(events) = 3
    /\ events[1].event_type \in RegisteredTypes
    /\ events[2].event_type = "InstanceStatusChanged"
    /\ events[3].event_type \in DeregisteredTypes
    /\ response.op \in {"heartbeat", "update_status", "deregister"}
    /\ ~ response.ok

\* C10: for every instance id the events appear in the order in which the
\* mutations were committed; the registration is the first mutation of an
\* id, so the first event about an id is its registration event.
C10_RegistrationEventFirst ==
    \A k \in 1..Len(events) :
       events[k].event_type \notin RegisteredTypes =>
          \E j \in 1..(k - 1) :
             /\ events[j].instance_id = events[k].instance_id
             /\ events[j].event_type \in RegisteredTypes

\* ==================================================== load_balance_service
MaxPicks == 4

\* models.rs lines 98-105
LoadBalancingStrategies ==
    {"Random", "RoundRobin", "LeastConnections", "WeightedRandom", "HealthyOnly"}

\* The ids of the instances of service n whose status in the index is Up
UpIds(n) ==
    {i \in DOMAIN instances :
        instances[i].service_name = n /\ instances[i].status = "Up"}

\* What an observer can say of the Up instances of service n: their ids when
\* no handler is in the middle of changing the catalog, and otherwise the
\* marker {UnknownId}, which is the id of no instance.
UpSeen(n) ==
    IF \A q \in Procs : pc[q] \in {"idle", "lb_pick"} THEN UpIds(n) ELSE {UnknownId}

\* round_robin_counters.entry(name).or_insert_with(|| AtomicUsize::new(0))
CounterEntry(counters, name) ==
    IF name \in DOMAIN counters THEN counters ELSE MapInsert(counters, name, 0)

\* registry.rs lines 197-208: get_service_instances with healthy_only, and
\* None (404) when it finds nothing.  `pending` remembers what UpSeen was at
\* that moment.
LoadBalanceCollect(p, name, strategy) ==
    /\ pc[p] = "idle"
    /\ Unlocked("services")
    /\ Len(picks) < MaxPicks
    /\ LET found == GetServiceInstances(services, name, TRUE)
       IN  IF found = <<>>
           THEN Finish(p, Result("load_balance", UnknownId, FALSE, Idle.inst))
           ELSE Goto(p, "lb_pick",
                     [Idle EXCEPT !.op = "load_balance", !.req.service_name = name,
                                  !.strategy = strategy, !.found = found,
                                  !.pending = UpSeen(name)])
    /\ UNCHANGED <<instances, services, events, nextId, now, balancing, client>>

\* registry.rs lines 210-230: the match on the strategy; r is the index the
\* random generator draws.  The counter entry and its fetch_add are one step
\* (the entry guard is held across the fetch_add).
LoadBalancePick(p, r) ==
    /\ pc[p] = "lb_pick"
    /\ Unlocked("round_robin_counters")
    /\ LET l == loc[p]
           name == l.req.service_name
           random == l.strategy \in {"Random", "WeightedRandom"}
           counters == CounterEntry(round_robin_counters, name)
           index == IF l.strategy = "RoundRobin" THEN counters[name] % Len(l.found)
                    ELSE IF random THEN r ELSE 0
           inst == l.found[index + 1]
       IN  /\ r < Len(l.found)
           /\ random \/ r = 0
           /\ IF l.strategy = "RoundRobin"
              THEN /\ round_robin_counters' = [counters EXCEPT ![name] = @ + 1]
                   /\ picks' = Append(picks,
                         [service_name |-> name, id |-> inst.id,
                          from |-> l.pending, to |-> UpSeen(name)])
              ELSE UNCHANGED <<round_robin_counters, picks>>
           /\ Finish(p, Result("load_balance", inst.id, TRUE, inst))
    /\ UNCHANGED <<instances, services, events, nextId, now, client>>

\* One handler at a time changes the catalog while NumProcs handlers pick.
LbNext ==
    \/ \E req \in ConcurrentRequests : RegisterInsert(1, req)
    \/ RegisterContains(1)
    \/ RegisterEntry(1)
    \/ RegisterSend(1)
    \/ \E id \in CallerIds : DeregisterRemove(1, id)
    \/ DeregisterGetMut(1)
    \/ DeregisterServicesRemove(1)
    \/ DeregisterSend(1)
    \/ \E id \in CallerIds : UpdateHeartbeat(1, id)
    \/ \E id \in CallerIds, st \in ConcurrentStatuses : UpdateInstanceStatus(1, id, st)
    \/ \E p \in Procs, name \in ConcurrentNames, strategy \in LoadBalancingStrategies :
          LoadBalanceCollect(p, name, strategy)
    \/ \E p \in Procs, r \in 0..(MaxIds - 1) : LoadBalancePick(p, r)

LbSpec == Init /\ [][LbNext]_vars

\* The RoundRobin picks for service n, in fetch_add order
PicksOf(n) == SelectSeq(picks, LAMBDA e : e.service_name = n)

\* The picks k .. k+len-1 of log were all made, from the call to the pick,
\* while exactly the instances of `up` were Up
StableWindow(log, k, up) ==
    /\ UnknownId \notin up
    /\ k + Cardinality(up) - 1 <= Len(log)
    /\ \A j \in k..(k + Cardinality(up) - 1) : log[j].from = up /\ log[j].to = up

\* C11: while the set of Up instances of a service is stable with n members,
\* any n consecutive RoundRobin picks for that service, made one after the
\* other or concurrently, return each of the n instances exactly once.
C11_RoundRobinFair ==
    \A n \in ServiceNames :
       LET log == PicksOf(n)
       IN  \A k \in 1..Len(log) :
              StableWindow(log, k, log[k].to) =>
                 {log[j].id : j \in k..(k + Cardinality(log[k].to) - 1)} = log[k].to

\* C13: a RoundRobin pick never returns an instance whose current status is
\* not Up: the instance it returns was Up in the index when the pick was
\* called or is Up when it returns (picks called while another handler was
\* changing the catalog are not judged).
C13_PickOnlyUp ==
    [][\A p \in Procs :
          (/\ pc[p] = "lb_pick" /\ pc'[p] = "idle"
           /\ loc[p].strategy = "RoundRobin"
           /\ UnknownId \notin loc[p].pending) =>
             \/ response'.id \in loc[p].pending
             \/ response'.id \in UpIds(loc[p].req.service_name)]_vars

\* ================================== LoadBalancer of the client (scoutquest-rust)
MaxLen == 3
MaxSelections == 3

\* The statuses of the candidates: Up, and Down for the statuses that are not
CandidateStatuses == {"Up", "Down"}

\* The id of the k-th candidate of a service, distinct across the services
CandidateId(name, k) == IF name = "test-service" THEN k ELSE MaxLen + k

\* The candidate lists of a service: up to MaxLen instances of that service
CandidateLists(name) ==
    UNION {{[k \in 1..len |->
                [id |-> CandidateId(name, k), service_name |-> name, status |-> st[k]]] :
              st \in [1..len -> CandidateStatuses]} : len \in 0..MaxLen}

\* models.rs lines 38-40: ServiceInstance::is_healthy
IsHealthy(instance) == instance.status = "Up"

\* No filter where the filter should be
Unfiltered(list) == list

\* load_balancer.rs lines 95-99: instances.iter().filter(is_healthy).collect()
Healthy(list) == SelectSeq(list, IsHealthy)

\* The full list whatever the healthy instances are
TargetAll(list) == list

\* load_balancer.rs lines 101-105: target_instances
Target(list) == IF Healthy(list) = <<>> THEN list ELSE Healthy(list)

\* The error of another case where the error of the empty list should be
NoInstanceAvailableAsNoHealthy == Outcome("NoHealthyInstances", NoCandidate, "")

\* load_balancer.rs lines 90-92: InternalError("Aucune instance disponible")
NoInstanceAvailable == Outcome("InternalError", NoCandidate, "")

\* load_balancer.rs lines 84-132: select_instance with the counter at
\* `counter` and the random generator drawing r; gives the result and the
\* counter it leaves.
SelectInstance(list, strategy, counter, r) ==
    IF list = <<>>
    THEN [outcome |-> NoInstanceAvailable, counter |-> counter]
    ELSE LET healthy_instances == Healthy(list)
             target_instances == Target(list)
         IN  CASE strategy \in {"Random", "WeightedRandom"} ->
                    [outcome |-> Outcome("Ok", target_instances[r + 1], ""),
                     counter |-> counter]
               [] strategy = "RoundRobin" ->
                    [outcome |-> Outcome("Ok",
                        target_instances[(counter % Len(target_instances)) + 1], ""),
                     counter |-> counter + 1]
               [] strategy = "LeastConnections" ->
                    [outcome |-> Outcome("Ok", target_instances[1], ""),
                     counter |-> counter]
               [] strategy = "HealthyOnly" ->
                    [outcome |-> IF healthy_instances = <<>>
                                 THEN Outcome("NoHealthyInstances", NoCandidate,
                                              list[1].service_name)
                                 ELSE Outcome("Ok", healthy_instances[1], ""),
                     counter |-> counter]

\* A call of select_instance with the list held for service `name`
Select(name, strategy, r) ==
    LET list == candidates[name]
        random == strategy \in {"Random", "WeightedRandom"}
        result == SelectInstance(list, strategy, round_robin_counter, r)
    IN  /\ round_robin_counter < MaxSelections
        /\ IF random /\ list # <<>> THEN r < Len(Target(list)) ELSE r = 0
        /\ round_robin_counter' = result.counter
        /\ selected' = [instances |-> list, strategy |-> strategy,
                        outcome |-> result.outcome]
        /\ selections' = IF strategy = "RoundRobin" /\ result.outcome.kind = "Ok"
                         THEN Append(selections,
                                [service_name |-> name,
                                 id |-> result.outcome.instance.id])
                         ELSE selections
        /\ UNCHANGED <<candidates, registry, balancing, calling, registering, discovering>>

\* A client that holds some list for every service
SelectInit ==
    /\ RegistryStart
    /\ DiscoveringStart
    /\ CallingStart
    /\ RegisteringStart
    /\ candidates \in [ServiceNames -> UNION {CandidateLists(n) : n \in ServiceNames}]
    /\ \A n \in ServiceNames : candidates[n] \in CandidateLists(n)
    /\ round_robin_counter = 0
    /\ selected = NoSelection
    /\ selections = <<>>

SelectNext ==
    \E name \in ServiceNames, strategy \in LoadBalancingStrategies, r \in 0..(MaxLen - 1) :
       Select(name, strategy, r)

SelectSpec == SelectInit /\ [][SelectNext]_vars

\* The RoundRobin selections made for service n, in call order
SelectionsOf(n) == SelectSeq(selections, LAMBDA e : e.service_name = n)

\* C12: with stable candidate lists, any n consecutive RoundRobin selections
\* made for one service return each of its n candidates exactly once, even
\* when RoundRobin selections for other services are made in between on the
\* same LoadBalancer.
C12_RotationPerService ==
    \A n \in ServiceNames :
       LET log == SelectionsOf(n)
           target == Target(candidates[n])
       IN  target # <<>> =>
              \A k \in 1..Len(log) :
                 k + Len(target) - 1 <= Len(log) =>
                    {log[j].id : j \in k..(k + Len(target) - 1)}
                       = {target[i].id : i \in 1..Len(target)}

\* The positions of the Up instances of a list
UpPositions(list) == {k \in 1..Len(list) : list[k].status = "Up"}

\* The first Up instance of a list that has one
FirstUp(list) ==
    list[CHOOSE k \in UpPositions(list) : \A j \in UpPositions(list) : k <= j]

\* C14: HealthyOnly over a non-empty list returns the first Up candidate in
\* input order, and fails with NoHealthyInstances naming the service of the
\* candidates when none is Up; it never returns an instance that is not Up.
C14_HealthyOnlyFirstUp ==
    (selected.strategy = "HealthyOnly" /\ selected.instances # <<>>) =>
       LET list == selected.instances
       IN  IF UpPositions(list) = {}
           THEN /\ selected.outcome.kind = "NoHealthyInstances"
                /\ \A k \in 1..Len(list) :
                      list[k].service_name = selected.outcome.service_name
           ELSE /\ selected.outcome.kind = "Ok"
                /\ selected.outcome.instance = FirstUp(list)
                /\ selected.outcome.instance.status = "Up"

\* HealthyOnly has just skipped a Down candidate and returned the Up one
\* behind it.
C14_Witness ==
    /\ selected.strategy = "HealthyOnly"
    /\ Len(selected.instances) = 3
    /\ selected.instances[1].status = "Down"
    /\ selected.instances[2].status = "Up"
    /\ selected.outcome.kind = "Ok"
    /\ selected.outcome.instance.id = selected.instances[2].id

\* C15: Random, RoundRobin, LeastConnections and WeightedRandom over a
\* non-empty list return a member of the Up subset when that subset is not
\* empty and a member of the full list otherwise; LeastConnections returns
\* the first element of that target list.
C15_FallbackToFullList ==
    (/\ selected.strategy \in {"Random", "RoundRobin", "LeastConnections",
                               "WeightedRandom"}
     /\ selected.instances # <<>>) =>
       LET list == selected.instances
           ups == {list[k] : k \in UpPositions(list)}
       IN  /\ selected.outcome.kind = "Ok"
           /\ selected.outcome.instance \in (IF ups # {} THEN ups ELSE Range(list))
           /\ selected.strategy = "LeastConnections" =>
                 selected.outcome.instance =
                    (IF ups # {} THEN FirstUp(list) ELSE list[1])

\* Random has just fallen back to the full list, none of whose instances is
\* Up, and drawn the last one.
C15_Witness ==
    /\ selected.strategy = "Random"
    /\ Len(selected.instances) = 3
    /\ UpPositions(selected.instances) = {}
    /\ selected.outcome.kind = "Ok"
    /\ selected.outcome.instance = selected.instances[3]

\* C16: select_instance on an empty list fails with an internal error for
\* every strategy, HealthyOnly included, and leaves the round-robin counter
\* where it was.
C16_EmptyListFails ==
    [][(selected'.strategy \in LoadBalancingStrategies /\ selected'.instances = <<>>) =>
          /\ selected'.outcome.kind = "InternalError"
          /\ round_robin_counter' = round_robin_counter]_vars

\* A RoundRobin selection over the empty list of one service has just failed,
\* after a RoundRobin selection for the other service had advanced the
\* counter.
C16_Witness ==
    /\ selected.strategy = "RoundRobin"
    /\ selected.instances = <<>>
    /\ selected.outcome.kind = "InternalError"
    /\ round_robin_counter = 1
    /\ Len(selections) = 1

\* ============================================================ call_service
MaxAttempts == 4
MaxDelay == 3

\* The same delay after every failed attempt
BackoffConstant(delay, attempt) == delay

\* client.rs line 364: self.retry_delay * attempt as u32
Backoff(delay, attempt) == delay * attempt

\* client.rs lines 338 and 369: the loop starts at attempt 1; with
\* retry_attempts = 0 it has no iteration and unreachable!() panics
CallStart ==
    /\ call.pc \in {"idle", "done"}
    /\ call' = IF retry_attempts = 0
               THEN [NoCall EXCEPT !.pc = "done",
                                   !.result = [kind |-> "panic", attempt |-> 0]]
               ELSE [NoCall EXCEPT !.pc = "try", !.attempt = 1]
    /\ UNCHANGED <<retry_attempts, retry_delay, registry, balancing, selecting,
                   registering, discovering>>

\* client.rs lines 339-362: one try_call_service and the match on its result;
\* the error of the attempt is identified by the number of the attempt
CallTry(ok) ==
    /\ call.pc = "try"
    /\ call' = IF ok
               THEN [call EXCEPT !.pc = "done", !.tries = Append(@, "Ok"),
                                 !.result = [kind |-> "Ok", attempt |-> call.attempt]]
               ELSE IF call.attempt = retry_attempts
               THEN [call EXCEPT !.pc = "done", !.tries = Append(@, "Err"),
                                 !.result = [kind |-> "Err", attempt |-> call.attempt]]
               ELSE [call EXCEPT !.pc = "sleep", !.tries = Append(@, "Err")]
    /\ UNCHANGED <<retry_attempts, retry_delay, registry, balancing, selecting,
                   registering, discovering>>

\* A retry that calls the instance of the attempt before
CallSleepReusesInstance ==
    /\ call.pc = "sleep"
    /\ call' = [call EXCEPT !.pc = IF selected.outcome.kind = "Ok" THEN "send" ELSE "try",
                            !.sleeps = Append(@, Backoff(retry_delay, call.attempt)),
                            !.attempt = @ + 1]
    /\ UNCHANGED <<retry_attempts, retry_delay, registry, balancing, selecting,
                   registering, discovering>>

\* client.rs line 364 and the next iteration of the loop
CallSleep ==
    /\ call.pc = "sleep"
    /\ call' = [call EXCEPT !.pc = "try",
                            !.sleeps = Append(@, Backoff(retry_delay, call.attempt)),
                            !.attempt = @ + 1]
    /\ UNCHANGED <<retry_attempts, retry_delay, registry, balancing, selecting,
                   registering, discovering>>

\* ServiceDiscoveryClient::with_config (client.rs lines 88-112) takes any
\* retry_attempts and retry_delay
CallInit ==
    /\ RegistryStart
    /\ DiscoveringStart
    /\ SelectingStart
    /\ RegisteringStart
    /\ retry_attempts \in 0..MaxAttempts
    /\ retry_delay \in 1..MaxDelay
    /\ call = NoCall

CallNext ==
    \/ CallStart
    \/ \E ok \in BOOLEAN : CallTry(ok)
    \/ CallSleep

CallSpec == CallInit /\ [][CallNext]_vars

\* C17: call_service with retry_attempts = N >= 1.  If every attempt fails it
\* has made exactly N attempts, slept retry_delay * k after the k-th failed
\* attempt for each k < N and not after the last, and returns the error of
\* the N-th attempt; if attempt k succeeds it returns that result at once,
\* having made k attempts and slept retry_delay * j after each failed attempt
\* j < k.  While it runs it never makes more than N attempts.
C17_RetryExactly ==
    retry_attempts >= 1 =>
       /\ Len(call.tries) <= retry_attempts
       /\ call.pc = "done" =>
             LET k == Len(call.tries)
             IN  /\ call.result.kind \in {"Ok", "Err"}
                 /\ call.result.attempt = k
                 /\ call.sleeps = [j \in 1..(k - 1) |-> retry_delay * j]
                 /\ \A j \in 1..(k - 1) : call.tries[j] = "Err"
                 /\ call.tries[k] = call.result.kind
                 /\ call.result.kind = "Err" => k = retry_attempts

\* A call with three attempts and a delay of 2 has failed three times, after
\* sleeps of 2 and 4.
C17_Witness ==
    /\ retry_attempts = 3
    /\ retry_delay = 2
    /\ call.pc = "done"
    /\ call.result = [kind |-> "Err", attempt |-> 3]
    /\ call.sleeps = <<2, 4>>

\* ================================ the client agent (ServiceDiscoveryClient)
\* The callers are clones of one agent: they share registered_instance and
\* heartbeat_handle (both behind an Arc).  The registry serves each request
\* of the agent in one step.

\* The responses to POST /api/v1/services: 201 with the instance, a non-2xx
\* status with a body, or no response
RegisterReplies ==
    {Reply("created", 201, ""), Reply("refused", 500, "Internal Server Error"),
     Reply("refused", 400, "Bad Request"), Reply("network", 0, "")}

\* The responses to DELETE .../instances/{id}: the status of the registry, or
\* no response
DeregisterReplies == {"answered", "network"}

\* The caller c moves to `label` with the fields `l`
AgentGoto(c, label, l) ==
    /\ agent' = [agent EXCEPT ![c] = [l EXCEPT !.pc = label]]
    /\ returned' = NoReturn

\* The call of caller c returns
AgentReturn(c, value) ==
    /\ agent' = [agent EXCEPT ![c] = AgentIdle]
    /\ returned' = value

\* api.rs lines 14-22 with registry.rs lines 31-95, in one step
ServerRegister(req) ==
    LET inst == NewInstance(req, nextId, now)
        cat == RegisterInstance([instances |-> instances, services |-> services],
                                req, nextId, now)
    IN  /\ instances' = cat.instances
        /\ services' = cat.services
        /\ events' = Append(events,
                            RegisteredEvent(req.service_name \in DOMAIN services, inst))
        /\ nextId' = nextId + 1

\* api.rs lines 84-93 with registry.rs lines 97-134, in one step
ServerDeregister(id) ==
    LET cat == DeregisterInstance([instances |-> instances, services |-> services], id)
    IN  /\ instances' = cat.instances
        /\ services' = cat.services
        /\ events' = IF id \in DOMAIN instances
                     THEN Append(events,
                            DeregisteredEvent(
                               instances[id].service_name \notin DOMAIN cat.services,
                               instances[id]))
                     ELSE events
        /\ nextId' = nextId

\* client.rs lines 154-171 and 185-188: the POST and its response
AgentRegisterPost(c, req, reply) ==
    /\ agent[c].pc = "idle"
    /\ CASE reply.kind = "created" ->
              /\ nextId <= MaxIds
              /\ ServerRegister(req)
              /\ AgentGoto(c, "reg_store", [AgentIdle EXCEPT !.id = nextId, !.reply = reply])
         [] reply.kind = "refused" ->
              /\ AgentGoto(c, "reg_refused", [AgentIdle EXCEPT !.reply = reply])
              /\ UNCHANGED <<instances, services, events, nextId>>
         [] reply.kind = "network" ->
              /\ AgentReturn(c, Returned("NetworkError", 0, ""))
              /\ UNCHANGED <<instances, services, events, nextId>>
    /\ UNCHANGED <<now, pc, loc, response, balancing, selecting, calling, discovering, beating,
                   registered_instance, heartbeat_handle, tasks, nextTask>>

\* A refused registration that also stops the heartbeat
AgentRegisterRefusedStops(c) ==
    /\ agent[c].pc = "reg_refused"
    /\ AgentReturn(c, Returned("RegistrationFailed", agent[c].reply.status,
                               agent[c].reply.body))
    /\ heartbeat_handle' = None
    /\ tasks' = tasks \ {heartbeat_handle}
    /\ UNCHANGED <<registry, balancing, selecting, calling, discovering, beating,
                   registered_instance, nextTask>>

\* client.rs lines 186-188: Err(RegistrationFailed { status, message })
AgentRegisterRefused(c) ==
    /\ agent[c].pc = "reg_refused"
    /\ AgentReturn(c, Returned("RegistrationFailed", agent[c].reply.status,
                               agent[c].reply.body))
    /\ UNCHANGED <<registry, balancing, selecting, calling, discovering, beating,
                   registered_instance, heartbeat_handle, tasks, nextTask>>

\* client.rs lines 173-176: *registered = Some(instance)
AgentRegisterStore(c) ==
    /\ agent[c].pc = "reg_store"
    /\ registered_instance' = agent[c].id
    /\ AgentGoto(c, "reg_stop", agent[c])
    /\ UNCHANGED <<registry, balancing, selecting, calling, discovering, beating,
                   heartbeat_handle, tasks, nextTask>>

\* client.rs lines 644-649: stop_heartbeat takes the handle and aborts its task
StopHeartbeat ==
    /\ heartbeat_handle' = None
    /\ tasks' = tasks \ {heartbeat_handle}

\* client.rs line 595: start_heartbeat begins with stop_heartbeat
AgentRegisterStop(c) ==
    /\ agent[c].pc = "reg_stop"
    /\ StopHeartbeat
    /\ AgentGoto(c, "reg_spawn", agent[c])
    /\ UNCHANGED <<registry, balancing, selecting, calling, discovering, beating,
                   registered_instance, nextTask>>

\* client.rs lines 597-632: tokio::spawn of the heartbeat loop
AgentRegisterSpawn(c) ==
    /\ agent[c].pc = "reg_spawn"
    /\ tasks' = tasks \cup {nextTask}
    /\ nextTask' = nextTask + 1
    /\ AgentGoto(c, "reg_handle", [agent[c] EXCEPT !.task = nextTask])
    /\ UNCHANGED <<registry, balancing, selecting, calling, discovering, beating,
                   registered_instance, heartbeat_handle>>

\* client.rs lines 634-637 and 180-184: *heartbeat_handle = Some(handle), Ok
AgentRegisterHandle(c) ==
    /\ agent[c].pc = "reg_handle"
    /\ heartbeat_handle' = agent[c].task
    /\ AgentReturn(c, Returned("Ok", agent[c].reply.status, ""))
    /\ UNCHANGED <<registry, balancing, selecting, calling, discovering, beating,
                   registered_instance, tasks, nextTask>>

\* client.rs lines 560-565 and 587: read registered_instance; Ok(()) if None
AgentDeregisterRead(c) ==
    /\ agent[c].pc = "idle"
    /\ IF registered_instance = None
       THEN AgentReturn(c, Returned("Ok", 0, ""))
       ELSE AgentGoto(c, "dereg_stop", [AgentIdle EXCEPT !.id = registered_instance])
    /\ UNCHANGED <<registry, balancing, selecting, calling, discovering, beating,
                   registered_instance, heartbeat_handle, tasks, nextTask>>

\* client.rs line 566: stop_heartbeat
AgentDeregisterStop(c) ==
    /\ agent[c].pc = "dereg_stop"
    /\ StopHeartbeat
    /\ AgentGoto(c, "dereg_delete", agent[c])
    /\ UNCHANGED <<registry, balancing, selecting, calling, discovering, beating,
                   registered_instance, nextTask>>

\* client.rs lines 568-579: the DELETE; a network error returns at the `?`,
\* any status of the registry goes on
AgentDeregisterDelete(c, reply) ==
    /\ agent[c].pc = "dereg_delete"
    /\ IF reply = "answered"
       THEN /\ ServerDeregister(agent[c].id)
            /\ AgentGoto(c, "dereg_clear", agent[c])
       ELSE /\ AgentReturn(c, Returned("NetworkError", 0, ""))
            /\ UNCHANGED <<instances, services, events, nextId>>
    /\ UNCHANGED <<now, pc, loc, response, balancing, selecting, calling, discovering, beating,
                   registered_instance, heartbeat_handle, tasks, nextTask>>

\* client.rs lines 581-587: *registered = None, Ok(())
AgentDeregisterClear(c) ==
    /\ agent[c].pc = "dereg_clear"
    /\ registered_instance' = None
    /\ AgentReturn(c, Returned("Ok", 0, ""))
    /\ UNCHANGED <<registry, balancing, selecting, calling, discovering, beating,
                   heartbeat_handle, tasks, nextTask>>

\* client.rs lines 613-627: the task logs the outcome of the request and goes
\* on to the next tick, whatever the outcome was
AfterHeartbeatBreaksOnFailure(t, succeeded) ==
    IF succeeded THEN tasks ELSE tasks \ {t}

AfterHeartbeat(t, succeeded) == tasks

\* client.rs line 605: interval.tick().await returns in task t, which is polled
\* from there to its next await that is pending
HeartbeatTick(t) ==
    /\ t \in tasks
    /\ t \notin woken
    /\ \A m \in wire : m.task # t
    /\ woken' = woken \cup {t}
    /\ returned' = NoReturn
    /\ UNCHANGED <<registry, balancing, selecting, calling, discovering,
                   registered_instance, heartbeat_handle, tasks, nextTask, agent,
                   wire, beat>>

\* client.rs lines 607-612 and 628-630: the same poll reads registered_instance
\* and sends the POST of the stored instance, or breaks when none is stored.
\* JoinHandle::abort (line 647) does not wait for the task: a task that was
\* being polled when it was aborted is dropped at the end of this poll only.
HeartbeatSend(t) ==
    /\ t \in woken
    /\ woken' = woken \ {t}
    /\ IF registered_instance # None
       THEN /\ wire' = wire \cup {[task |-> t, id |-> registered_instance]}
            /\ tasks' = tasks
       ELSE /\ wire' = wire
            /\ tasks' = tasks \ {t}
    /\ returned' = NoReturn
    /\ UNCHANGED <<registry, balancing, selecting, calling, discovering,
                   registered_instance, heartbeat_handle, nextTask, agent, beat>>

\* api.rs lines 95-104 and client.rs lines 613-627: the registry answers the
\* request m with 200, or with 404 when it does not know the instance, or the
\* request fails on the network; the task, if it was not aborted, goes on
HeartbeatAnswer(m, reached) ==
    /\ m \in wire
    /\ wire' = wire \ {m}
    /\ IF reached
       THEN /\ Heartbeat(m.id)
            /\ beat' = [task |-> m.task, id |-> m.id, kind |-> "answered",
                        status |-> IF m.id \in DOMAIN instances THEN 200 ELSE 404]
       ELSE /\ beat' = [task |-> m.task, id |-> m.id, kind |-> "network", status |-> 0]
            /\ UNCHANGED <<instances, events>>
    /\ tasks' = AfterHeartbeat(m.task, reached /\ m.id \in DOMAIN instances)
    /\ returned' = NoReturn
    /\ UNCHANGED <<services, nextId, now, pc, loc, response, balancing, selecting,
                   calling, discovering, registered_instance, heartbeat_handle,
                   nextTask, agent, woken>>

\* The steps of the heartbeat tasks
HeartbeatLoop ==
    \/ \E t \in 1..MaxIds : HeartbeatTick(t)
    \/ \E t \in 1..MaxIds : HeartbeatSend(t)
    \/ \E m \in wire, reached \in BOOLEAN : HeartbeatAnswer(m, reached)

AgentNext ==
    \/ \E c \in Procs, req \in ConcurrentRequests, reply \in RegisterReplies :
          AgentRegisterPost(c, req, reply)
    \/ \E c \in Procs : AgentRegisterRefused(c)
    \/ \E c \in Procs : AgentRegisterStore(c)
    \/ \E c \in Procs : AgentRegisterStop(c)
    \/ \E c \in Procs : AgentRegisterSpawn(c)
    \/ \E c \in Procs : AgentRegisterHandle(c)
    \/ \E c \in Procs : AgentDeregisterRead(c)
    \/ \E c \in Procs : AgentDeregisterStop(c)
    \/ \E c \in Procs, reply \in DeregisterReplies : AgentDeregisterDelete(c, reply)
    \/ \E c \in Procs : AgentDeregisterClear(c)
    \/ HeartbeatLoop

AgentSpec == Init /\ [][AgentNext]_vars

\* One caller: every call on the agent returns before the next one is made
\* (the heartbeat task still runs beside it).
AgentSeqNext ==
    \/ \E req \in Requests, reply \in RegisterReplies :
          AgentRegisterPost(1, req, reply)
    \/ AgentRegisterRefused(1)
    \/ AgentRegisterStore(1)
    \/ AgentRegisterStop(1)
    \/ AgentRegisterSpawn(1)
    \/ AgentRegisterHandle(1)
    \/ AgentDeregisterRead(1)
    \/ AgentDeregisterStop(1)
    \/ \E reply \in DeregisterReplies : AgentDeregisterDelete(1, reply)
    \/ AgentDeregisterClear(1)
    \/ HeartbeatLoop

AgentSeqSpec == Init /\ [][AgentSeqNext]_vars

\* No register_service and no deregister is in progress
AgentQuiescent == \A c \in Procs : agent[c].pc = "idle"

\* C18: whenever no register_service or deregister call is in progress, the
\* heartbeat task is running iff a registered instance identity is stored.
C18_HeartbeatIffRegistered ==
    AgentQuiescent => (tasks # {} <=> registered_instance # None)

\* C19: after any sequence of register_service and deregister calls, at most
\* one instance created by the agent is still in the registry, and it is the
\* one whose identity the agent stores.
C19_AtMostOneInstance ==
    AgentQuiescent =>
       /\ Cardinality(DOMAIN instances) <= 1
       /\ DOMAIN instances \subseteq {registered_instance}

\* C20: a register_service that receives a non-2xx response returns
\* RegistrationFailed with that status and the response body, and none of its
\* steps changes the stored instance identity, the heartbeat handle or the
\* running heartbeat tasks.
C20_RefusedLeavesAgent ==
    [][\A c \in Procs :
          /\ ~ (agent[c].pc = "reg_refused" <=> agent'[c].pc = "reg_refused") =>
                UNCHANGED <<registered_instance, heartbeat_handle, tasks>>
          /\ (agent[c].pc = "reg_refused" /\ agent'[c].pc = "idle") =>
                /\ agent[c].reply.status \notin 200..299
                /\ returned' =
                      [kind |-> "RegistrationFailed", status |-> agent[c].reply.status,
                       message |-> agent[c].reply.body]]_vars

\* A registration has just been refused with status 500 on an agent that
\* holds a registered instance and its running heartbeat task.
C20_Witness ==
    /\ returned = [kind |-> "RegistrationFailed", status |-> 500,
                   message |-> "Internal Server Error"]
    /\ registered_instance # None
    /\ registered_instance \in DOMAIN instances
    /\ heartbeat_handle \in tasks

\* C21: when a deregister of the agent returns, the stored instance identity
\* is None; and a deregister on an agent with no stored identity returns Ok
\* and sends no request to the registry.
C21_DeregisterClears ==
    [][/\ \A c \in Procs :
             (agent[c].pc \in {"dereg_delete", "dereg_clear"} /\ agent'[c].pc = "idle") =>
                registered_instance' = None
       /\ (AgentQuiescent /\ AgentQuiescent' /\ returned.kind # "Ok" /\ returned'.kind = "Ok") =>
             /\ registered_instance = None
             /\ UNCHANGED <<registry, registered_instance>>]_vars

\* C24: the health checker changes a status only on an edge, judged against
\* the status the instance has when the result is applied: a step of its
\* loop changes nothing and publishes nothing, or takes one Up instance to
\* Down and publishes HealthCheckFailed, or takes one instance that is not Up
\* to Up and publishes HealthCheckRecovered.
C24_HealthCheckEdges ==
    [][\A p \in Procs :
          pc[p] = "hc_loop" =>
             \/ UNCHANGED <<instances, events>>
             \/ \E i \in DOMAIN instances :
                   /\ DOMAIN instances' = DOMAIN instances
                   /\ \A j \in DOMAIN instances \ {i} : instances'[j] = instances[j]
                   /\ Len(events') = Len(events) + 1
                   /\ events'[Len(events')].instance_id = i
                   /\ \/ /\ instances[i].status = "Up"
                         /\ instances'[i].status = "Down"
                         /\ events'[Len(events')].event_type = "HealthCheckFailed"
                      \/ /\ instances[i].status # "Up"
                         /\ instances'[i].status = "Up"
                         /\ events'[Len(events')].event_type = "HealthCheckRecovered"]_vars

\* C29: once a register_instance of a new instance of service S and a
\* deregister_instance of another instance of S have both completed, the
\* catalog is consistent: S exists, the new instance is in the list of S and
\* in the instance index, and discovery for S returns it.
C29_RegisterSurvivesDeregister ==
    Quiescent =>
       \A i \in DOMAIN instances :
          LET S == instances[i].service_name
          IN  /\ S \in DOMAIN services
              /\ i \in ListedIds(S)
              /\ i \in {inst.id : inst \in Range(GetServiceInstances(services, S, TRUE))}

\* C30: register_instance publishes ServiceRegistered iff the service did not
\* exist when the instance was added to it: the service_existed it publishes
\* from is true exactly when services.entry finds the service.
C30_ServiceRegisteredOnce ==
    [][\A p \in Procs :
          (pc[p] = "reg_entry" /\ pc'[p] = "reg_send") =>
             (loc[p].flag <=> loc[p].inst.service_name \in DOMAIN services)]_vars

\* ================================================ cleanup_stale_instances
\* health_checker.rs line 88: the filter of the sweep
Stale(inst, t) == t - inst.last_heartbeat > StaleThreshold

\* health_checker.rs lines 82-91: read the clock, enumerate the index and
\* keep the ids of the instances whose last heartbeat is older than the
\* threshold
CleanupCollect(p) ==
    /\ MayStart(p)
    /\ Goto(p, "reap_loop",
            [Idle EXCEPT !.op = "cleanup_stale_instances",
                         !.now = now,
                         !.pending = {i \in DOMAIN instances : Stale(instances[i], now)}])
    /\ UNCHANGED <<instances, services, events, nextId, now, balancing, client>>

\* health_checker.rs lines 93-95: deregister_instance for the next id
CleanupNext(p) ==
    /\ pc[p] = "reap_loop"
    /\ IF loc[p].pending = {}
       THEN /\ Finish(p, Result("cleanup_stale_instances", UnknownId, TRUE, Idle.inst))
            /\ instances' = instances
       ELSE \E id \in loc[p].pending :
               InstancesRemove(p, id, [loc[p] EXCEPT !.pending = @ \ {id}])
    /\ UNCHANGED <<services, events, nextId, now, balancing, client>>

\* Time passes, up to past the stale threshold.
Elapse ==
    /\ now < MaxTime
    /\ now' = now + 1
    /\ response' = NoResponse
    /\ UNCHANGED <<instances, services, events, nextId, pc, loc, balancing, client>>

\* The cron job of the reaper runs on its own task (process 2) while the
\* handlers of register and heartbeat requests run on another (process 1).
ReaperNext ==
    \/ \E req \in ConcurrentRequests : RegisterInsert(1, req)
    \/ RegisterContains(1)
    \/ RegisterEntry(1)
    \/ RegisterSend(1)
    \/ \E id \in CallerIds : UpdateHeartbeat(1, id)
    \/ CleanupCollect(2)
    \/ CleanupNext(2)
    \/ DeregisterGetMut(2)
    \/ DeregisterServicesRemove(2)
    \/ DeregisterSend(2)
    \/ Elapse

ReaperSpec == Init /\ [][ReaperNext]_vars

\* C22: at the moment the reaper deregisters an instance (its
\* instances.remove takes the instance out of the index), now minus the
\* last_heartbeat of that instance is greater than the stale threshold, also
\* when the instance got a heartbeat after the sweep enumerated it.
C22_ReapsOnlyStale ==
    [][\A p \in Procs :
          (pc[p] = "reap_loop" /\ pc'[p] = "dereg_get_mut") =>
             Stale(instances[loc'[p].id], now)]_vars

\* C23: when a sweep ends, no instance that was stale when the sweep
\* enumerated the index is left in it; and when the reaper has deregistered
\* the only instance of a service, the service is gone, discovery for it
\* returns the empty list and the event published is ServiceDeregistered.
C23_SweepRemovesStale ==
    [][\A p \in Procs :
          /\ (pc[p] = "reap_loop" /\ pc'[p] = "idle") =>
                \A i \in DOMAIN instances' : ~ Stale(instances'[i], loc[p].now)
          /\ (loc[p].op = "cleanup_stale_instances" /\ pc[p] = "dereg_send"
                 /\ pc'[p] = "reap_loop") =>
                LET S == loc[p].inst.service_name
                IN  (/\ \A i \in DOMAIN instances' : instances'[i].service_name # S
                     /\ \A q \in Procs : pc'[q] = "idle" \/ q = p) =>
                       /\ S \notin DOMAIN services'
                       /\ GetServiceInstances(services', S, TRUE) = <<>>
                       /\ events' = Append(events, DeregisteredEvent(TRUE, loc[p].inst))]_vars

\* ============================================================== discovery
\* Requests of the discovery scenarios: two instances of test-service that
\* share the tag "a", a request whose service_name is the empty string and a
\* request whose port is 0
DiscoverRequests ==
    {[service_name |-> "test-service", host |-> "localhost", port |-> 3000,
      tags |-> <<"a">>, health_check |-> FALSE],
     [service_name |-> "test-service", host |-> "localhost", port |-> 3001,
      tags |-> <<"a", "b">>, health_check |-> FALSE],
     [service_name |-> "", host |-> "localhost", port |-> 3000,
      tags |-> <<>>, health_check |-> FALSE],
     [service_name |-> "test-service", host |-> "localhost", port |-> 0,
      tags |-> <<"a">>, health_check |-> FALSE]}

\* The requests that name a service and a port
TaggedRequests == {r \in DiscoverRequests : r.service_name # "" /\ r.port # 0}

\* The tag lists a caller asks for; a tag is one token of the query string
TagLists == {<<>>, <<"a">>, <<"b">>, <<"a", "b">>}

MaxLimit == 2

Comma == ","

\* tags.join(","): the query string as its tokens
RECURSIVE Join(_)
Join(tags) ==
    IF Len(tags) <= 1 THEN tags
    ELSE <<Head(tags), Comma>> \o Join(Tail(tags))

\* The string between two commas: empty, or the tag it holds
Word(w) == IF w = <<>> THEN "" ELSE w[1]

\* required_tags.split(','): one part more than there are commas, so the
\* empty string splits into one empty tag
RECURSIVE Split(_)
Split(csv) ==
    IF \A k \in 1..Len(csv) : csv[k] # Comma
    THEN <<Word(csv)>>
    ELSE LET k == CHOOSE k \in 1..Len(csv) :
                     csv[k] = Comma /\ \A j \in 1..(k - 1) : csv[j] # Comma
         IN  <<Word(SubSeq(csv, 1, k - 1))>> \o Split(SubSeq(csv, k + 1, Len(csv)))

\* instances.retain(|i| tags.iter().all(|tag| i.tags.contains(tag)))
RetainTagged(s, tags) ==
    SelectSeq(s, LAMBDA i : \A k \in 1..Len(tags) : tags[k] \in Range(i.tags))

\* instances.truncate(limit)
Truncate(s, limit) == IF limit < Len(s) THEN SubSeq(s, 1, limit) ELSE s

\* get_service_instances that truncates before it filters by tag
GetInstancesTruncatesFirst(svcs, name, query) ==
    LET healthy == GetServiceInstances(svcs, name, UnwrapOr(query.healthy_only, TRUE))
        cut == IF query.limit = Nothing THEN healthy ELSE Truncate(healthy, query.limit[1])
    IN  IF query.tags = Nothing THEN cut ELSE RetainTagged(cut, Split(query.tags[1]))

\* get_service_instances (registry.rs lines 165-190) for a DiscoveryQuery
GetInstances(svcs, name, query) ==
    LET healthy == GetServiceInstances(svcs, name, UnwrapOr(query.healthy_only, TRUE))
        tagged == IF query.tags = Nothing THEN healthy
                  ELSE RetainTagged(healthy, Split(query.tags[1]))
    IN  IF query.limit = Nothing THEN tagged ELSE Truncate(tagged, query.limit[1])

\* The DiscoveryQuery values a request can carry
DiscoveryQueries ==
    [healthy_only : {Nothing, Some(TRUE), Some(FALSE)},
     tags : {Nothing} \cup {Some(Join(t)) : t \in TagLists},
     limit : {Nothing} \cup {Some(n) : n \in 0..MaxLimit}]

\* api.rs lines 53-69: GET .../instances and GET /discovery/{name}
DiscoverGet(p, name, query) ==
    /\ pc[p] = "idle"
    /\ discovered' = [by |-> "get_instances", service_name |-> name,
                      options |-> Nothing, query |-> query,
                      instances |-> GetInstances(services, name, query)]
    /\ UNCHANGED <<registry, balancing, selecting, calling, registering>>

\* bool::to_string and the bool that serde reads back from the query string
BoolToString(b) == IF b THEN "true" ELSE "false"

ParseBool(str) == str = "true"

\* #[derive(Default)] of ServiceDiscoveryOptions (models.rs line 176)
DefaultOptions == [healthy_only |-> FALSE, tags |-> Nothing, limit |-> Nothing]

\* ServiceDiscoveryOptions::new (models.rs lines 185-190)
NewOptions == [DefaultOptions EXCEPT !.healthy_only = TRUE]

\* What callers pass to discover_service
DiscoveryOptions ==
    {Nothing, Some(NewOptions),
     Some([NewOptions EXCEPT !.tags = Some(<<"a">>), !.limit = Some(1)]),
     Some([NewOptions EXCEPT !.healthy_only = FALSE])}

\* client.rs lines 224-242: the query string discover_service sends, as the
\* registry deserializes it
QueryOf(options) ==
    LET o == UnwrapOr(options, DefaultOptions)
    IN  [healthy_only |-> Some(ParseBool(BoolToString(o.healthy_only))),
         tags |-> IF o.tags = Nothing THEN Nothing ELSE Some(Join(o.tags[1])),
         limit |-> o.limit]

\* client.rs lines 219-264, answered by the registry's discover_service
\* handler (api.rs lines 62-69)
DiscoverService(p, name, options) ==
    /\ pc[p] = "idle"
    /\ discovered' = [by |-> "discover_service", service_name |-> name,
                      options |-> options, query |-> QueryOf(options),
                      instances |-> GetInstances(services, name, QueryOf(options))]
    /\ UNCHANGED <<registry, balancing, selecting, calling, registering>>

\* Registrations of tagged instances and discovery requests to the registry,
\* one at a time
DiscoverNext ==
    \/ \E req \in TaggedRequests : RegisterInsert(1, req)
    \/ RegisterContains(1)
    \/ RegisterEntry(1)
    \/ RegisterSend(1)
    \/ \E name \in ConcurrentNames, query \in DiscoveryQueries : DiscoverGet(1, name, query)

DiscoverSpec == Init /\ [][DiscoverNext]_vars

\* Registrations of any request, status updates and the client's
\* discover_service, one at a time
ClientDiscoverNext ==
    \/ \E req \in DiscoverRequests : RegisterInsert(1, req)
    \/ RegisterContains(1)
    \/ RegisterEntry(1)
    \/ RegisterSend(1)
    \/ \E id \in CallerIds, st \in ConcurrentStatuses : UpdateInstanceStatus(1, id, st)
    \/ \E name \in ConcurrentNames, options \in DiscoveryOptions :
          DiscoverService(1, name, options)

ClientDiscoverSpec == Init /\ [][ClientDiscoverNext]_vars

\* The positions of the service list that pass the filters of the query:
\* Up when healthy_only is unspecified or true, and carrying every
\* requested tag
Passing(list, query) ==
    {k \in 1..Len(list) :
        /\ UnwrapOr(query.healthy_only, TRUE) => list[k].status = "Up"
        /\ query.tags # Nothing =>
              \A tag \in Range(Split(query.tags[1])) : tag \in Range(list[k].tags)}

C27_InvalidRequestRejected ==
    /\ \A i \in DOMAIN instances :
          instances[i].service_name # "" /\ instances[i].port \in 1..65535
    /\ \A n \in DOMAIN services :
          /\ n # ""
          /\ \A k \in 1..Len(services[n].instances) :
                services[n].instances[k].port \in 1..65535
    /\ \A k \in 1..Len(events) : events[k].service_name # ""

\* Whether the instance with this id is Up in the instance index
CurrentlyUp(id) == id \in DOMAIN instances /\ instances[id].status = "Up"

\* C28: discover_service(name, None) asks the registry for healthy
\* instances only, and every instance it yields is Up.
C28_DefaultHealthyOnly ==
    [][(discovered' # discovered /\ discovered'.by = "discover_service"
           /\ discovered'.options = Nothing) =>
          /\ UnwrapOr(discovered'.query.healthy_only, TRUE)
          /\ \A j \in 1..Len(discovered'.instances) :
                CurrentlyUp(discovered'.instances[j].id)]_vars

\* ===================================================== frames and snapshots
\* C31: a heartbeat on a known instance whose status is Up changes only the
\* last_heartbeat of that instance: its status and last_status_change, every
\* other instance, the services and the event stream stay as they were.
C31_HeartbeatUpFrame ==
    [][(/\ response'.op = "heartbeat"
        /\ response'.id \in DOMAIN instances
        /\ instances[response'.id].status = "Up") =>
          LET id == response'.id
          IN  /\ response'.ok
              /\ instances' = [instances EXCEPT ![id].last_heartbeat = now]
              /\ instances'[id].status = "Up"
              /\ instances'[id].last_status_change = instances[id].last_status_change
              /\ UNCHANGED <<services, events>>]_vars

\* A heartbeat has just been applied to an Up instance, later than its
\* registration, and the registration event is still the only event.
C31_Witness ==
    /\ response.op = "heartbeat" /\ response.ok
    /\ response.id \in DOMAIN instances
    /\ instances[response.id].status = "Up"
    /\ instances[response.id].last_heartbeat > instances[response.id].registered_at
    /\ instances[response.id].last_status_change = instances[response.id].registered_at
    /\ Len(events) = 1

\* Heartbeats and status updates on one worker (process 1) while the health
\* check job runs on another (process 2), with a running clock.
StatusNext ==
    \/ \E req \in Requests : RegisterInsert(1, req)
    \/ RegisterContains(1)
    \/ RegisterEntry(1)
    \/ RegisterSend(1)
    \/ \E id \in CallerIds : UpdateHeartbeat(1, id)
    \/ \E id \in CallerIds, st \in ConcurrentStatuses : UpdateInstanceStatus(1, id, st)
    \/ CheckAllCollect(2)
    \/ \E h \in BOOLEAN : CheckAllProbe(2, h)
    \/ Tick

StatusSpec == Init /\ [][StatusNext]_vars

\* C32: the last_status_change of an instance never decreases, and it is
\* written together with the status: a step that changes the status of an
\* instance leaves last_status_change at the time of that step, and
\* last_status_change moves only to the time of the step that writes it.
C32_StatusChangeTime ==
    [][\A i \in DOMAIN instances \cap DOMAIN instances' :
          /\ instances'[i].last_status_change >= instances[i].last_status_change
          /\ instances'[i].status # instances[i].status =>
                instances'[i].last_status_change = now
          /\ instances'[i].last_status_change # instances[i].last_status_change =>
                instances'[i].last_status_change = now]_vars

\* The health check has marked Down, later than its registration, an
\* instance that a heartbeat had recovered before.
C32_Witness ==
    \E i \in DOMAIN instances :
       /\ instances[i].status = "Down"
       /\ instances[i].last_status_change > instances[i].registered_at
       /\ pc[2] = "hc_loop"
       /\ response.op = "update_status" /\ response.id = i
       /\ \E k \in 1..Len(events) : events[k].event_type = "HealthCheckRecovered"

\* The processes on which a run of the job `op` is in progress
Running(op) == {p \in Procs : pc[p] # "idle" /\ loc[p].op = op}

\* C33: the health check job and the reaper job are single-shot: at most one
\* run of check_all_instances and at most one run of
\* cleanup_stale_instances is in progress at any time.
C33_SingleShotJobs ==
    /\ Cardinality(Running("check_all_instances")) <= 1
    /\ Cardinality(Running("cleanup_stale_instances")) <= 1

\* C39: call_service ends with a Result, Ok or Err, for every retry_attempts
\* that with_config accepts, 0 included: it never panics.
C39_CallReturnsResult ==
    /\ call.result.kind # "panic"
    /\ call.pc = "done" => call.result.kind \in {"Ok", "Err"}

\* ======================================== call_service against a registry
\* The arguments of the call_service that is followed
CalledService == "test-service"

CalledStrategy == "RoundRobin"

\* client.rs lines 346-365: the Err arm of the match, for the attempt the
\* call is at
Failed(c) ==
    IF c.attempt = retry_attempts
    THEN [c EXCEPT !.pc = "done", !.tries = Append(@, "Err"),
                   !.result = [kind |-> "Err", attempt |-> c.attempt]]
    ELSE [c EXCEPT !.pc = "sleep", !.tries = Append(@, "Err")]

\* client.rs lines 396-398 and 281: try_call_service calls
\* load_balance_service, which calls discover_service(name, None); a request
\* that does not reach the registry fails the attempt
CallDiscover(reached) ==
    /\ call.pc = "try"
    /\ \A p \in Procs : pc[p] = "idle"
    /\ IF reached
       THEN /\ discovered' = [by |-> "discover_service", service_name |-> CalledService,
                              options |-> Nothing, query |-> QueryOf(Nothing),
                              instances |-> GetInstances(services, CalledService,
                                                         QueryOf(Nothing))]
            /\ call' = [call EXCEPT !.pc = "pick"]
       ELSE /\ discovered' = discovered
            /\ call' = Failed(call)
    /\ UNCHANGED <<retry_attempts, retry_delay, registry, balancing, selecting, registering>>

\* client.rs lines 283-290: ServiceNotFound for the empty list, else
\* select_instance on the list just discovered
CallPick ==
    /\ call.pc = "pick"
    /\ IF discovered.instances = <<>>
       THEN /\ call' = Failed(call)
            /\ UNCHANGED <<round_robin_counter, selected, selections>>
       ELSE LET result == SelectInstance(discovered.instances, CalledStrategy,
                                         round_robin_counter, 0)
            IN  /\ round_robin_counter' = result.counter
                /\ selected' = [instances |-> discovered.instances,
                                strategy |-> CalledStrategy,
                                outcome |-> result.outcome]
                /\ selections' = IF result.outcome.kind = "Ok"
                                 THEN Append(selections,
                                        [service_name |-> CalledService,
                                         id |-> result.outcome.instance.id])
                                 ELSE selections
                /\ call' = IF result.outcome.kind = "Ok"
                           THEN [call EXCEPT !.pc = "send"]
                           ELSE Failed(call)
    /\ UNCHANGED <<candidates, retry_attempts, retry_delay, registry, balancing,
                   registering, discovering>>

\* client.rs lines 399-418: the HTTP call to the instance that was picked
CallSend(ok) ==
    /\ call.pc = "send"
    /\ call' = IF ok
               THEN [call EXCEPT !.pc = "done", !.tries = Append(@, "Ok"),
                                 !.result = [kind |-> "Ok", attempt |-> call.attempt]]
               ELSE Failed(call)
    /\ UNCHANGED <<retry_attempts, retry_delay, registry, balancing, selecting,
                   registering, discovering>>

\* One call_service of the client while registrations and deregistrations
\* change the registry, one handler at a time
ResolveNext ==
    \/ \E req \in ConcurrentRequests : RegisterInsert(1, req)
    \/ RegisterContains(1)
    \/ RegisterEntry(1)
    \/ RegisterSend(1)
    \/ \E id \in CallerIds : DeregisterRemove(1, id)
    \/ DeregisterGetMut(1)
    \/ DeregisterServicesRemove(1)
    \/ DeregisterSend(1)
    \/ (call.pc = "idle" /\ CallStart)
    \/ \E reached \in BOOLEAN : CallDiscover(reached)
    \/ CallPick
    \/ \E ok \in BOOLEAN : CallSend(ok)
    \/ CallSleep

ResolveSpec == Init /\ [][ResolveNext]_vars

\* C34: every attempt of call_service resolves again before its HTTP call:
\* the call gets to its HTTP request only from a pick made in the same
\* attempt, on the list of a discovery made in the same attempt, and that
\* discovery returns what the registry holds at that moment.
C34_FreshPickPerAttempt ==
    [][/\ (call'.pc = "send" /\ call.pc # "send") =>
             /\ call.pc = "pick" /\ call'.attempt = call.attempt
             /\ selected'.instances = discovered.instances
             /\ selected'.outcome.kind = "Ok"
             /\ selected'.outcome.instance \in Range(discovered.instances)
       /\ (call'.pc = "pick" /\ call.pc # "pick") =>
             /\ call.pc = "try" /\ call'.attempt = call.attempt
             /\ discovered'.instances =
                   GetInstances(services, CalledService, discovered'.query)
       /\ (call'.pc = "try" /\ call.pc # "try") =>
             call'.attempt = Len(call'.tries) + 1]_vars

\* The second attempt is about to call instance 2, picked from a list that
\* no longer holds instance 1, which the first attempt had picked and which
\* was deregistered in between.
C34_Witness ==
    /\ call.pc = "send" /\ call.attempt = 2
    /\ Len(selections) = 2
    /\ selections[1].id = 1
    /\ selections[2].id = 2
    /\ 1 \notin DOMAIN instances
    /\ selected.instances = discovered.instances
    /\ Len(selected.instances) = 1

\* ------------------------------------------- the heartbeat task and deregister
\* C35: once deregister has issued its DELETE for an instance, the agent sends
\* no further heartbeat for that instance; and a heartbeat that reaches the
\* registry after the DELETE was processed is answered 404 and does not
\* re-create the instance. (An instance the agent registered is absent from
\* the index only once its DELETE was processed; a request enters `wire` when
\* the agent sends it and leaves it when it is answered.)
C35_NoHeartbeatAfterDelete ==
    [][/\ \A m \in wire' \ wire : m.id \in DOMAIN instances
       /\ \A m \in wire \ wire' :
             (beat'.kind = "answered" /\ m.id \notin DOMAIN instances) =>
                /\ beat'.status = 404
                /\ UNCHANGED <<instances, services, events>>]_vars

\* --------------------------------------------------- the heartbeat loop alone
\* api.rs deregister_instance: the instance is removed from the registry by
\* somebody else than the agent (an operator's DELETE, or the reaper's
\* registry.deregister_instance at health_checker.rs line 94)
RemovedByOthers(id) ==
    /\ id \in DOMAIN instances
    /\ ServerDeregister(id)
    /\ returned' = NoReturn
    /\ UNCHANGED <<now, pc, loc, response, balancing, selecting, calling, discovering,
                   registered_instance, heartbeat_handle, tasks, nextTask, agent,
                   beating>>

\* One caller of the agent, its heartbeat task, and removals by others
HeartbeatNext ==
    \/ AgentSeqNext
    \/ \E id \in 1..MaxIds : RemovedByOthers(id)

\* tokio polls a task that is ready, and the interval of the task ticks: a
\* heartbeat task that can tick or go on does so.
HeartbeatFairness ==
    \A t \in 1..MaxIds : WF_vars(HeartbeatTick(t)) /\ WF_vars(HeartbeatSend(t))

HeartbeatSpec == Init /\ [][HeartbeatNext]_vars /\ HeartbeatFairness

\* The last heartbeat request, made by task t, failed
FailedHeartbeat(t) ==
    /\ beat.task = t
    /\ beat.kind = "network" \/ (beat.kind = "answered" /\ beat.status # 200)

\* Task t has a heartbeat request under way
Attempting(t) == \E m \in wire : m.task = t

\* C36: while an instance identity is stored and the heartbeat task has not
\* been aborted, a heartbeat attempt that fails (network error, or a non-2xx
\* answer such as the 404 for an instance the registry no longer knows) never
\* ends the task, and is always followed by another attempt of the task.
C36_FailedHeartbeatRetried ==
    /\ [][\A m \in wire \ wire' :
             (m.task \in tasks /\ FailedHeartbeat(m.task)') => m.task \in tasks']_vars
    /\ \A t \in 1..MaxIds :
          (FailedHeartbeat(t) /\ ~Attempting(t) /\ t \in tasks /\ registered_instance # None)
             ~> (Attempting(t) \/ t \notin tasks \/ registered_instance = None)

\* Task 1 got a 404 for the instance the agent still stores, was not ended by
\* it, and has sent its next heartbeat
C36_Witness ==
    /\ beat = [task |-> 1, id |-> 1, kind |-> "answered", status |-> 404]
    /\ registered_instance = 1
    /\ 1 \in tasks
    /\ wire = {[task |-> 1, id |-> 1]}

\* ------------------------------------------------------------------ get_stats
\* registry.rs line 275: total_services = self.services.len()
GetStatsServices(p) ==
    /\ pc[p] = "idle"
    /\ Goto(p, "stats_instances",
            [Idle EXCEPT !.op = "get_stats",
                         !.stats.total_services = Cardinality(DOMAIN services)])
    /\ UNCHANGED <<instances, services, events, nextId, now, balancing, client>>

\* registry.rs line 276: total_instances = self.instances.len()
GetStatsInstances(p) ==
    /\ pc[p] = "stats_instances"
    /\ Goto(p, "stats_healthy",
            [loc[p] EXCEPT !.stats.total_instances = Cardinality(DOMAIN instances)])
    /\ UNCHANGED <<instances, services, events, nextId, now, balancing, client>>

\* registry.rs lines 277-288: the count of the instances that are Up, taken
\* in a second pass over the index, and the RegistryStats returned
GetStatsHealthy(p) ==
    /\ pc[p] = "stats_healthy"
    /\ Finish(p, [Result("get_stats", UnknownId, TRUE, Idle.inst) EXCEPT
                    !.stats = [loc[p].stats EXCEPT
                                 !.healthy_instances =
                                    Cardinality({i \in DOMAIN instances :
                                                   instances[i].status = "Up"})]])
    /\ UNCHANGED <<instances, services, events, nextId, now, balancing, client>>

\* Process 1 registers, changes statuses and deregisters while process 2
\* reads the statistics (axum serves each request on the multi-thread runtime)
MetricsNext ==
    \/ \E req \in ConcurrentRequests : RegisterInsert(1, req)
    \/ RegisterContains(1)
    \/ RegisterEntry(1)
    \/ RegisterSend(1)
    \/ \E id \in CallerIds : DeregisterRemove(1, id)
    \/ DeregisterGetMut(1)
    \/ DeregisterServicesRemove(1)
    \/ DeregisterSend(1)
    \/ \E id \in CallerIds, st \in ConcurrentStatuses : UpdateInstanceStatus(1, id, st)
    \/ GetStatsServices(2)
    \/ GetStatsInstances(2)
    \/ GetStatsHealthy(2)

MetricsSpec == Init /\ [][MetricsNext]_vars

\* C37: every get_stats result is a consistent snapshot, also while instances
\* are registered or deregistered concurrently: healthy_instances <=
\* total_instances, so that unhealthy = total_instances - healthy_instances
\* of /metrics (main.rs line 333, on usize) never underflows.
C37_StatsSnapshot ==
    response.op = "get_stats" =>
       response.stats.healthy_instances <= response.stats.total_instances

\* -------------------------------------------------------- get_services_by_tag
\* The tags a caller asks for
Tags == {"a", "b"}

\* registry.rs lines 240-246: the services whose tags contain the tag
GetServicesByTag(p, tag) ==
    /\ pc[p] = "idle"
    /\ Finish(p, [Result("get_services_by_tag", UnknownId, TRUE, Idle.inst) EXCEPT
                    !.tag = tag,
                    !.services = {services[n] :
                                    n \in {m \in DOMAIN services :
                                             \E k \in 1..Len(services[m].tags) :
                                                services[m].tags[k] = tag}}])
    /\ UNCHANGED <<instances, services, events, nextId, now, balancing, client>>

\* One caller registers instances with tags, sends heartbeats, changes
\* statuses, deregisters, and asks for the services of a tag
TagNext ==
    \/ \E req \in TaggedRequests : RegisterInsert(1, req)
    \/ RegisterContains(1)
    \/ RegisterEntry(1)
    \/ RegisterSend(1)
    \/ \E id \in CallerIds : DeregisterRemove(1, id)
    \/ DeregisterGetMut(1)
    \/ DeregisterServicesRemove(1)
    \/ DeregisterSend(1)
    \/ \E id \in CallerIds : UpdateHeartbeat(1, id)
    \/ \E id \in CallerIds, st \in ConcurrentStatuses : UpdateInstanceStatus(1, id, st)
    \/ \E tag \in Tags : GetServicesByTag(1, tag)

TagSpec == Init /\ [][TagNext]_vars

\* C38: the tags of a service are those of the instance whose registration
\* created it, and no later Register, Deregister, Heartbeat or UpdateStatus
\* changes them while the service exists; get_services_by_tag(t) returns
\* exactly the services whose tags contain t.
C38_ServiceTagsFixed ==
    [][/\ \A name \in DOMAIN services' :
             IF name \in DOMAIN services
             THEN services'[name].tags = services[name].tags
             ELSE \E p \in Procs : /\ pc[p] = "reg_entry"
                                   /\ loc[p].inst.service_name = name
                                   /\ services'[name].tags = loc[p].inst.tags
       /\ response'.op = "get_services_by_tag" =>
             \A name \in DOMAIN services :
                services[name] \in response'.services
                   <=> response'.tag \in Range(services[name].tags)]_vars

\* The service was created by an instance tagged a and has a second instance
\* tagged a and b: asked for b, get_services_by_tag returns nothing
C38_Witness ==
    /\ response.op = "get_services_by_tag"
    /\ response.tag = "b"
    /\ response.services = {}
    /\ "test-service" \in DOMAIN services
    /\ services["test-service"].tags = <<"a">>
    /\ \E k \in 1..Len(services["test-service"].instances) :
          "b" \in Range(services["test-service"].instances[k].tags)

\* ------------------------------------------------------------- lock discipline
\* The next step of the handler that process p has under way
Continue(p) ==
    \/ RegisterContains(p)
    \/ RegisterEntry(p)
    \/ RegisterSend(p)
    \/ DeregisterGetMut(p)
    \/ DeregisterServicesRemove(p)
    \/ DeregisterSend(p)
    \/ DeleteServiceNext(p)
    \/ \E h \in BOOLEAN : CheckAllProbe(p, h)

====
